---- MODULE Spec2Model ----
(***************************************************************************)
(* Verification model of the wayfare simulation core: the jump subsystem   *)
(* (JumpPhysics, JumpState, LandingAssist) and the tile world (TileMap,    *)
(* World.isBlocked, canJumpOver).                                          *)
(*                                                                         *)
(* Numbers.  The source computes with IEEE doubles.  The model uses exact  *)
(* fixed-point integers:                                                   *)
(*   time      milliseconds (dtMs; dtSec = dtMs / 1000)                    *)
(*   velocity  milli-pixels per second   (VScale units per px/s)           *)
(*   height    micro-pixels              (HScale units per px)             *)
(* With these units  velocity += gravity * dtSec  and                      *)
(* height -= velocity * dtSec  are exact integer operations; only the two  *)
(* multiplications by a fraction (hang time, cancelRise) round, toward 0,  *)
(* to one milli-pixel per second.                                          *)
(***************************************************************************)
EXTENDS Integers, Naturals, Sequences, FiniteSets, TLC

VARIABLES physics, js, hist, scn, la, world, qry

vars == <<physics, js, hist, scn, la, world, qry>>

(***************************************************************************)
(* Bounds of the model                                                     *)
(***************************************************************************)
\* longest tick the frame loop delivers, in ms (ticks are 1..MaxTickMs)
MaxTickMs == 100
\* number of operations in one behaviour of the free JumpPhysics driver
MaxPhysOps == 6
\* number of operations in one behaviour of the free JumpState driver
MaxStateOps == 5
\* number of jump presses in one behaviour of the tick loop
MaxPresses == 2
\* number of unblocked positions around a landing point
MaxValid == 2
\* number of edits (setTile, setCollision, syncCollisionFromTiles) of a map
MaxEdits == 2
\* largest tile edge length, in pixels, of the coordinate conversions
MaxEdgePx == 16
\* number of addLayer calls made on a map
MaxLayerAdds == 3
\* number of changes made to the base Tiled document before it is converted
MaxDocEdits == 2
\* largest variant count of a registered variant configuration
MaxVariantCount == 3
\* number of setTile calls made on the map a renderer draws
MaxTileEdits == 1
\* number of Player.update ticks in one behaviour
MaxPlayerTicks == 3
\* distance in px a player of SpecProgress travels before its ticks stop
MaxTravelPx == 8

(***************************************************************************)
(* Units                                                                   *)
(***************************************************************************)
VScale == 1000
HScale == VScale * VScale

(***************************************************************************)
(* JumpPhase                                                               *)
(***************************************************************************)
Grounded == "grounded"
Rising == "rising"
Falling == "falling"
Landing == "landing"
JumpPhase == {Grounded, Rising, Falling, Landing}

(***************************************************************************)
(* JumpPhysics: configuration (documented tuning) and operations           *)
(***************************************************************************)
gravity == 1200
jumpStrength == 280
maxHeight == 24
\* hangTimeFactor 0.2, in percent
hangTimeFactorPct == 20

\* round a rational num/den toward zero
TruncDiv(num, den) == IF num >= 0 THEN num \div den ELSE -((-num) \div den)

Max(a, b) == IF a >= b THEN a ELSE b

\* JumpPhysics after construction: height = 0, velocity = 0
JumpPhysics_new == [height |-> 0, velocity |-> 0]

\* jump(): velocity = -jumpStrength
JumpPhysics_jump(p) == [p EXCEPT !.velocity = -(jumpStrength * VScale)]

\* isNearPeak(): height >= maxHeight * 0.85
isNearPeak(p) == p.height >= maxHeight * 85 * (HScale \div 100)

\* mutant of ClampToMax: the clamp to maxHeight is missing
ClampToMax_missing(p) == p

\* clamp to max height: height = maxHeight, velocity = max(0, velocity)
ClampToMax(p) ==
  IF p.height > maxHeight * HScale
    THEN [height |-> maxHeight * HScale, velocity |-> Max(0, p.velocity)]
    ELSE p

\* update(dtSec, phase)
JumpPhysics_update(p, dtMs, phase) ==
  IF phase = Grounded \/ phase = Landing
    THEN [height |-> 0, velocity |-> 0]
    ELSE
      LET v1 == p.velocity + gravity * dtMs
          v2 == IF isNearPeak(p) /\ v1 > 0
                  THEN TruncDiv(v1 * (100 - hangTimeFactorPct), 100)
                  ELSE v1
          h1 == p.height - v2 * dtMs
          g  == IF h1 < 0 THEN [height |-> 0, velocity |-> 0]
                          ELSE [height |-> h1, velocity |-> v2]
      IN ClampToMax(g)

\* cancelRise(): halve an upward velocity
JumpPhysics_cancelRise(p) ==
  IF p.velocity < 0 THEN [p EXCEPT !.velocity = TruncDiv(p.velocity, 2)]
                    ELSE p

\* reset()
JumpPhysics_reset(p) == [height |-> 0, velocity |-> 0]

\* canClearObstacle(obstacleHeight, tolerance = 0.9)
canClearObstacle(p, obstacleHeight) ==
  p.height >= obstacleHeight * 9 * (HScale \div 10)

(***************************************************************************)
(* JumpState: configuration and operations                                 *)
(***************************************************************************)
coyoteTimeMs == 150
jumpBufferMs == 100
landingDurationMs == 100

JumpState_new ==
  [phase |-> Grounded, height |-> 0, velocity |-> 0,
   timeSinceGrounded |-> 0, jumpBufferTimer |-> 0, landingTimer |-> 0]

isGrounded(s) == s.phase = Grounded
isAirborne(s) == s.phase = Rising \/ s.phase = Falling
canJump(s) == s.phase = Grounded \/ s.timeSinceGrounded < coyoteTimeMs
hasBufferedJump(s) == s.jumpBufferTimer > 0

setGrounded(s) ==
  [s EXCEPT !.phase = Grounded, !.timeSinceGrounded = 0,
            !.height = 0, !.velocity = 0]

\* mutant of startLanding: touchdown goes straight to Grounded
startLanding_skipsLanding(s) == setGrounded(s)

\* mutant of startLanding: the stored height and velocity are not zeroed
startLanding_keepsHeight(s) ==
  [s EXCEPT !.phase = Landing, !.landingTimer = landingDurationMs]

startLanding(s) ==
  [s EXCEPT !.phase = Landing, !.landingTimer = landingDurationMs,
            !.height = 0, !.velocity = 0]

\* update(): the timers (timeSinceGrounded, jumpBufferTimer)
UpdateTimers(s, dtMs) ==
  LET s2 == IF s.phase # Grounded
              THEN [s EXCEPT !.timeSinceGrounded = @ + dtMs]
              ELSE s
  IN IF s2.jumpBufferTimer > 0
       THEN [s2 EXCEPT !.jumpBufferTimer = @ - dtMs]
       ELSE s2

\* mutant of LandingCountdown: the countdown ends one tick late (< for <=)
LandingCountdown_late(s, dtMs) ==
  LET s4 == [s EXCEPT !.landingTimer = @ - dtMs]
  IN IF s4.landingTimer < 0 THEN setGrounded(s4) ELSE s4

\* update(): the Landing branch, a countdown that ends in setGrounded()
LandingCountdown(s, dtMs) ==
  LET s4 == [s EXCEPT !.landingTimer = @ - dtMs]
  IN IF s4.landingTimer <= 0 THEN setGrounded(s4) ELSE s4

\* update(): the phase from height and velocity, outside Landing
DeterminePhase(s, height, velocity) ==
  IF height <= 0
    THEN IF s.phase # Grounded THEN startLanding(s) ELSE s
    ELSE IF velocity < 0
           THEN [s EXCEPT !.phase = Rising]
           ELSE [s EXCEPT !.phase = Falling]

\* update(dtMs, height, velocity)
JumpState_update(s, dtMs, height, velocity) ==
  LET s1 == [s EXCEPT !.height = height, !.velocity = velocity]
      s3 == UpdateTimers(s1, dtMs)
  IN IF s3.phase = Landing
       THEN LandingCountdown(s3, dtMs)
       ELSE DeterminePhase(s3, height, velocity)

JumpState_startJump(s) ==
  [s EXCEPT !.phase = Rising, !.timeSinceGrounded = 0, !.jumpBufferTimer = 0]

JumpState_bufferJump(s) == [s EXCEPT !.jumpBufferTimer = jumpBufferMs]

JumpState_clearBuffer(s) == [s EXCEPT !.jumpBufferTimer = 0]

JumpState_forceGrounded(s) == setGrounded(s)

(***************************************************************************)
(* LandingAssist: configuration and operations                             *)
(*                                                                         *)
(* A call is described by a record L: the landing point (x, y), the        *)
(* configuration flag pushOutEnabled, and the blocking predicate, given by *)
(* landingBlocked (is the landing point blocked) and valid (the offsets    *)
(* from the landing point that are not blocked; every other point is).     *)
(* A returned position is <<x, y>>, null is <<>>.  Math.hypot is compared  *)
(* through its square, which is exact on the integer offsets probed.       *)
(***************************************************************************)
snapDistance == 6
checkRadius == 16
searchStep == 2

null == <<>>

\* the blocking predicate handed to LandingAssist
checkCollision(L, x, y) ==
  IF x = L.x /\ y = L.y THEN L.landingBlocked
                        ELSE <<x - L.x, y - L.y>> \notin L.valid

isValidPosition(L, x, y) == ~checkCollision(L, x, y)

\* the square of Math.hypot(px - x, py - y)
Dist2(px, py, x, y) == (px - x) * (px - x) + (py - y) * (py - y)

\* the 8 positions probed at one radius, in the order of the source
Positions(x, y, radius) ==
  << <<x + radius, y>>, <<x - radius, y>>,
     <<x, y + radius>>, <<x, y - radius>>,
     <<x + radius, y + radius>>, <<x - radius, y + radius>>,
     <<x + radius, y - radius>>, <<x - radius, y - radius>> >>

\* mutant of Closer: the later of two equally distant positions wins
Closer_lastWins(closestValid, dist) ==
  closestValid = null \/ dist <= closestValid.dist

\* !closestValid || dist < closestValid.dist
Closer(closestValid, dist) ==
  closestValid = null \/ dist < closestValid.dist

\* the inner loop: positions i.. of one radius, updating closestValid
RECURSIVE ScanPositions(_, _, _, _)
ScanPositions(L, positions, i, closestValid) ==
  IF i > Len(positions) THEN closestValid
  ELSE LET pos == positions[i]
           dist == Dist2(pos[1], pos[2], L.x, L.y)
           next == IF isValidPosition(L, pos[1], pos[2])
                      /\ Closer(closestValid, dist)
                     THEN [x |-> pos[1], y |-> pos[2], dist |-> dist]
                     ELSE closestValid
       IN ScanPositions(L, positions, i + 1, next)

\* the outer loop: radius, radius + searchStep, ... up to checkRadius
RECURSIVE SearchFrom(_, _, _)
SearchFrom(L, radius, closestValid) ==
  IF radius > checkRadius
    THEN IF closestValid = null THEN null
                                ELSE <<closestValid.x, closestValid.y>>
    ELSE LET current == ScanPositions(L, Positions(L.x, L.y, radius), 1,
                                      closestValid)
         IN IF current # null /\ current.dist <= snapDistance * snapDistance
              THEN <<current.x, current.y>>
              ELSE SearchFrom(L, radius + searchStep, current)

\* mutant of SearchProbes: the search returns at the first valid position
\* within snap distance, without probing the rest of its radius
RECURSIVE SearchProbes_returnsAtOnce(_, _, _)
SearchProbes_returnsAtOnce(L, radius, closestValid) ==
  IF radius > checkRadius THEN <<>>
  ELSE LET positions == Positions(L.x, L.y, radius)
           current == ScanPositions(L, positions, 1, closestValid)
           hits == {i \in 1..Len(positions) :
                      /\ isValidPosition(L, positions[i][1], positions[i][2])
                      /\ Dist2(positions[i][1], positions[i][2], L.x, L.y)
                           <= snapDistance * snapDistance}
       IN IF hits # {}
            THEN SubSeq(positions, 1, CHOOSE i \in hits : \A j \in hits : i <= j)
            ELSE positions
                   \o SearchProbes_returnsAtOnce(L, radius + searchStep, current)

\* the positions handed to checkCollision by the search loop, in order,
\* from the given radius on
RECURSIVE SearchProbes(_, _, _)
SearchProbes(L, radius, closestValid) ==
  IF radius > checkRadius THEN <<>>
  ELSE LET positions == Positions(L.x, L.y, radius)
           current == ScanPositions(L, positions, 1, closestValid)
       IN IF current # null /\ current.dist <= snapDistance * snapDistance
            THEN positions
            ELSE positions \o SearchProbes(L, radius + searchStep, current)

findNearestValidPosition(L) ==
  IF isValidPosition(L, L.x, L.y) THEN <<L.x, L.y>>
  ELSE IF ~L.pushOutEnabled THEN null
  ELSE SearchFrom(L, searchStep, null)

\* mutant of TooFar: the distance of the corrected position is not checked
TooFar_unchecked(L, validPos) == FALSE

\* distance > this.checkRadius
TooFar(L, validPos) ==
  Dist2(validPos[1], validPos[2], L.x, L.y) > checkRadius * checkRadius

assistLanding(L) ==
  IF ~checkCollision(L, L.x, L.y) THEN null
  ELSE LET validPos == findNearestValidPosition(L)
       IN IF validPos = null THEN null
          ELSE IF TooFar(L, validPos) THEN null
          ELSE validPos

(***************************************************************************)
(* Tiles, TileLayer, TileMap                                               *)
(*                                                                         *)
(* A tile is [id, hasHeight, height]: hasHeight tells whether the optional *)
(* height field is present.  A layer is [name, zIndex, width, height,      *)
(* tiles], tiles mapping <<x, y>> to a tile.  A map keeps its layers in    *)
(* insertion order, as the Map of the source does.                         *)
(***************************************************************************)
TileId == {"grass", "water", "log", "rock", "tree", "empty"}

TileSize == 16
MapWidth == 2
MapHeight == 2

Tile(id) == [id |-> id, hasHeight |-> FALSE, height |-> 0]
TileWithHeight(id, h) == [id |-> id, hasHeight |-> TRUE, height |-> h]

\* getTileAt returns null / undefined player
NoTile == [id |-> "null", hasHeight |-> FALSE, height |-> 0]

\* obstacle heights in pixels
TILE_HEIGHTS ==
  [grass |-> 0, empty |-> 0, water |-> 32, rock |-> 12, log |-> 8, tree |-> 16]

getTileHeight(tileId) == TILE_HEIGHTS[tileId]

\* mutant of canJumpOver: the clearance test is strict (> for >=)
canJumpOver_strict(tileId, jumpHeight) ==
  LET obstacleHeight == getTileHeight(tileId)
  IN IF obstacleHeight = 0 THEN TRUE
     ELSE jumpHeight > obstacleHeight * 9 * (HScale \div 10)

\* canJumpOver(tileId, jumpHeight, tolerance = 0.9); jumpHeight in micro-px
canJumpOver(tileId, jumpHeight) ==
  LET obstacleHeight == getTileHeight(tileId)
  IN IF obstacleHeight = 0 THEN TRUE
     ELSE jumpHeight >= obstacleHeight * 9 * (HScale \div 10)

\* TileConfig.blocksMovement
blocksMovement(tileId) == tileId \in {"water", "log", "tree"}

Cells(width, height) == (0..(width - 1)) \X (0..(height - 1))

\* new TileLayer(name, width, height, zIndex): every tile { id: "empty" }
TileLayer_new(name, width, height, zIndex) ==
  [name |-> name, zIndex |-> zIndex, width |-> width, height |-> height,
   tiles |-> [c \in Cells(width, height) |-> Tile("empty")]]

TileLayer_getTile(layer, x, y) ==
  IF x < 0 \/ x >= layer.width \/ y < 0 \/ y >= layer.height
    THEN NoTile
    ELSE layer.tiles[<<x, y>>]

TileLayer_setTile(layer, x, y, tile) ==
  IF x < 0 \/ x >= layer.width \/ y < 0 \/ y >= layer.height
    THEN layer
    ELSE [layer EXCEPT !.tiles[<<x, y>>] = tile]

TileLayer_fill(layer, tile) ==
  [layer EXCEPT !.tiles = [c \in DOMAIN layer.tiles |-> tile]]

\* new TileMap(width, height, tileSize): no layers, collision grid all 0
TileMap_new(width, height, tileSize) ==
  [width |-> width, height |-> height, tileSizePx |-> tileSize,
   layers |-> <<>>,
   collisionGrid |-> [i \in 0..(width * height - 1) |-> 0]]

\* addLayer: Map.set, a known name keeps its place and gets the new layer
TileMap_addLayer(tm, layer) ==
  IF \E i \in 1..Len(tm.layers) : tm.layers[i].name = layer.name
    THEN [tm EXCEPT !.layers =
            [i \in 1..Len(tm.layers) |->
               IF tm.layers[i].name = layer.name THEN layer ELSE tm.layers[i]]]
    ELSE [tm EXCEPT !.layers = Append(@, layer)]

\* the value undefined where a layer is expected
UndefinedLayer == TileLayer_new("undefined", 0, 0, 0)

\* getLayer: Map.get, which returns undefined for an unknown name and does
\* not throw.  The result tells whether the call threw, whether a layer was
\* found, and the value returned.
TileMap_getLayer(tm, name) ==
  IF \E i \in 1..Len(tm.layers) : tm.layers[i].name = name
    THEN [threw |-> FALSE, found |-> TRUE,
          layer |-> tm.layers[CHOOSE i \in 1..Len(tm.layers) :
                                 tm.layers[i].name = name]]
    ELSE [threw |-> FALSE, found |-> FALSE, layer |-> UndefinedLayer]

\* Array.prototype.sort by zIndex (stable): insertion into a sorted prefix
RECURSIVE InsertByZ(_, _)
InsertByZ(sorted, layer) ==
  IF sorted = <<>> THEN <<layer>>
  ELSE IF Head(sorted).zIndex > layer.zIndex THEN <<layer>> \o sorted
  ELSE <<Head(sorted)>> \o InsertByZ(Tail(sorted), layer)

RECURSIVE SortByZ(_)
SortByZ(layers) ==
  IF layers = <<>> THEN <<>>
  ELSE InsertByZ(SortByZ(SubSeq(layers, 1, Len(layers) - 1)),
                 layers[Len(layers)])

TileMap_getAllLayers(tm) == SortByZ(tm.layers)

Reverse(q) == [i \in 1..Len(q) |-> q[Len(q) + 1 - i]]

\* a collision grid read: an index outside the array reads undefined,
\* and undefined !== 0
GridBlocked(tm, index) ==
  IF index \in DOMAIN tm.collisionGrid THEN tm.collisionGrid[index] # 0
                                        ELSE TRUE

\* mutant of TileMap_isBlocked: the test tx < 0 is missing
TileMap_isBlocked_noLowerX(tm, tx, ty) ==
  IF tx >= tm.width \/ ty < 0 \/ ty >= tm.height
    THEN TRUE
    ELSE GridBlocked(tm, ty * tm.width + tx)

TileMap_isBlocked(tm, tx, ty) ==
  IF tx < 0 \/ tx >= tm.width \/ ty < 0 \/ ty >= tm.height
    THEN TRUE
    ELSE GridBlocked(tm, ty * tm.width + tx)

\* the loop of getTileAt over the layers, highest zIndex first
RECURSIVE FirstNonEmpty(_, _, _)
FirstNonEmpty(layers, tx, ty) ==
  IF layers = <<>> THEN NoTile
  ELSE LET tile == TileLayer_getTile(Head(layers), tx, ty)
       IN IF tile # NoTile /\ tile.id # "empty" THEN tile
          ELSE FirstNonEmpty(Tail(layers), tx, ty)

\* mutant of getTileAt: the layers are scanned lowest zIndex first
TileMap_getTileAt_bottomFirst(tm, tx, ty) ==
  IF tx < 0 \/ tx >= tm.width \/ ty < 0 \/ ty >= tm.height
    THEN NoTile
    ELSE FirstNonEmpty(TileMap_getAllLayers(tm), tx, ty)

TileMap_getTileAt(tm, tx, ty) ==
  IF tx < 0 \/ tx >= tm.width \/ ty < 0 \/ ty >= tm.height
    THEN NoTile
    ELSE FirstNonEmpty(Reverse(TileMap_getAllLayers(tm)), tx, ty)

TileMap_setCollision(tm, tx, ty, blocked) ==
  IF tx >= 0 /\ tx < tm.width /\ ty >= 0 /\ ty < tm.height
    THEN [tm EXCEPT !.collisionGrid[ty * tm.width + tx] =
                       IF blocked THEN 1 ELSE 0]
    ELSE tm

\* mutant of syncCollisionFromTiles: the grid is not cleared first
TileMap_syncCollisionFromTiles_noClear(tm) ==
  [tm EXCEPT !.collisionGrid =
     [i \in DOMAIN tm.collisionGrid |->
        LET tile == TileMap_getTileAt(tm, i % tm.width, i \div tm.width)
        IN IF tile # NoTile /\ blocksMovement(tile.id) THEN 1
           ELSE tm.collisionGrid[i]]]

\* syncCollisionFromTiles: clear, then set the cells whose top tile blocks
TileMap_syncCollisionFromTiles(tm) ==
  [tm EXCEPT !.collisionGrid =
     [i \in DOMAIN tm.collisionGrid |->
        LET tile == TileMap_getTileAt(tm, i % tm.width, i \div tm.width)
        IN IF tile # NoTile /\ blocksMovement(tile.id) THEN 1 ELSE 0]]

\* worldToTile: Math.floor(world / tileSizePx)
TileMap_worldToTile(tm, worldX, worldY) ==
  [tx |-> worldX \div tm.tileSizePx, ty |-> worldY \div tm.tileSizePx]

\* tileToWorld: the centre of a tile, tx * tileSizePx + tileSizePx / 2.
\* The centre of a tile of odd size lies on a half pixel: the result is in
\* half pixels.
TileMap_tileToWorld(tm, tx, ty) ==
  [x2 |-> 2 * tx * tm.tileSizePx + tm.tileSizePx,
   y2 |-> 2 * ty * tm.tileSizePx + tm.tileSizePx]

\* mutant of worldToTile on half pixels: Math.round for Math.floor
TileMap_worldToTileHalfPx_rounds(tm, x2, y2) ==
  [tx |-> (x2 + tm.tileSizePx) \div (2 * tm.tileSizePx),
   ty |-> (y2 + tm.tileSizePx) \div (2 * tm.tileSizePx)]

\* worldToTile of a position given in half pixels:
\* Math.floor((x2 / 2) / tileSizePx)
TileMap_worldToTileHalfPx(tm, x2, y2) ==
  [tx |-> x2 \div (2 * tm.tileSizePx), ty |-> y2 \div (2 * tm.tileSizePx)]

(***************************************************************************)
(* TiledConverter                                                          *)
(*                                                                         *)
(* A Tiled document is [width, height, tilewidth, tileheight, tilesets,    *)
(* layers].  A tileset is [name, firstgid, hasSource, tiles], a tileset    *)
(* tile [id, hasProperties, hasTileId, tileId, collides].  A layer is      *)
(* [name, type, visible, kindProperty ("" when absent), hasZIndexProperty, *)
(* zIndexProperty, width, height, data].  A cell of data is the 32-bit     *)
(* number flipH * 2^31 + flipV * 2^30 + flipD * 2^29 + index, kept as      *)
(* [flipH, flipV, flipD, index].  The options are [defaultTileId,          *)
(* layerOverrides], layerOverrides mapping a layer name to [hasKind, kind, *)
(* hasZIndex, zIndex, hasCollides, collides]; a name without override has  *)
(* the three has-flags FALSE.                                              *)
(***************************************************************************)
Gid(index) ==
  [flipH |-> FALSE, flipV |-> FALSE, flipD |-> FALSE, index |-> index]

\* gidWithFlags & ~FLIPPED_BITS_MASK
BaseGid(gidWithFlags) == gidWithFlags.index

\* (gidWithFlags & FLIPPED_BITS_MASK) !== 0
HasFlippedBits(gidWithFlags) ==
  gidWithFlags.flipH \/ gidWithFlags.flipV \/ gidWithFlags.flipD

NoOverride ==
  [hasKind |-> FALSE, kind |-> "", hasZIndex |-> FALSE, zIndex |-> 0,
   hasCollides |-> FALSE, collides |-> FALSE]

\* outcomes of a conversion step: a value or a thrown error
Ok(v) == [ok |-> TRUE, error |-> "", value |-> v]
Threw(name) == [ok |-> FALSE, error |-> name, value |-> <<>>]

\* the tiles of one tileset that get an entry of the metadata map: those
\* with properties; a tile with properties but no tileId property throws
TilesetThrows(tileset) ==
  \/ tileset.hasSource
  \/ \E i \in 1..Len(tileset.tiles) :
       tileset.tiles[i].hasProperties /\ ~tileset.tiles[i].hasTileId

\* buildTileMetadata: the set of [gid, tileId, collides] entries, a later
\* entry of the same gid replacing an earlier one (Map.set)
MetadataEntries(doc) ==
  LET entry(k, i) ==
        [gid |-> doc.tilesets[k].firstgid + doc.tilesets[k].tiles[i].id,
         tileId |-> doc.tilesets[k].tiles[i].tileId,
         collides |-> doc.tilesets[k].tiles[i].collides,
         at |-> <<k, i>>]
      all == UNION {{entry(k, i) : i \in 1..Len(doc.tilesets[k].tiles)} :
                      k \in 1..Len(doc.tilesets)}
      set == {e \in all : doc.tilesets[e.at[1]].tiles[e.at[2]].hasProperties}
      later(a, b) == a.at[1] > b.at[1]
                       \/ (a.at[1] = b.at[1] /\ a.at[2] > b.at[2])
  IN {e \in set : \A f \in set : f.gid = e.gid => ~later(f, e)}

\* mutant of buildTileMetadata: a tileset with a source is not rejected
buildTileMetadata_acceptsSource(doc) ==
  IF \E k \in 1..Len(doc.tilesets) :
       \E i \in 1..Len(doc.tilesets[k].tiles) :
         doc.tilesets[k].tiles[i].hasProperties
           /\ ~doc.tilesets[k].tiles[i].hasTileId
    THEN Threw("MissingTileIdProperty")
    ELSE Ok(MetadataEntries(doc))

buildTileMetadata(doc) ==
  LET first == CHOOSE k \in 1..Len(doc.tilesets) :
                 /\ TilesetThrows(doc.tilesets[k])
                 /\ \A j \in 1..(k - 1) : ~TilesetThrows(doc.tilesets[j])
  IN IF \A k \in 1..Len(doc.tilesets) : ~TilesetThrows(doc.tilesets[k])
       THEN Ok(MetadataEntries(doc))
     ELSE IF doc.tilesets[first].hasSource THEN Threw("ExternalTileset")
     ELSE Threw("MissingTileIdProperty")

HasMetadata(metadata, gid) == \E e \in metadata : e.gid = gid
MetadataGet(metadata, gid) == CHOOSE e \in metadata : e.gid = gid

\* resolveLayerKind
resolveLayerKind(layer, override) ==
  IF override.hasKind THEN Ok(override.kind)
  ELSE IF layer.kindProperty = "" THEN Ok("tile")
  ELSE IF layer.kindProperty \in {"tile", "collision", "ignore"}
    THEN Ok(layer.kindProperty)
  ELSE Threw("UnsupportedKind")

\* mutant of resolveLayerZIndex: the layer's z-index property is not read
resolveLayerZIndex_positionOnly(layer, fallbackIndex) == fallbackIndex

\* resolveLayerZIndex; fallbackIndex counts from 0
resolveLayerZIndex(layer, fallbackIndex) ==
  IF layer.hasZIndexProperty THEN layer.zIndexProperty ELSE fallbackIndex

\* mutant of CellOutcome: an index without metadata becomes the default
\* tile
CellOutcome_defaultsUnknown(gidWithFlags, metadata, defaultTileId) ==
  IF BaseGid(gidWithFlags) = 0 \/ ~HasMetadata(metadata, BaseGid(gidWithFlags))
    THEN Ok(Tile(defaultTileId))
  ELSE IF HasFlippedBits(gidWithFlags) THEN Threw("Flipped")
  ELSE Ok(Tile(MetadataGet(metadata, BaseGid(gidWithFlags)).tileId))

\* the body of the loop of convertLayerTiles for one cell: the tile, or the
\* error thrown
CellOutcome(gidWithFlags, metadata, defaultTileId) ==
  IF BaseGid(gidWithFlags) = 0 THEN Ok(Tile(defaultTileId))
  ELSE IF ~HasMetadata(metadata, BaseGid(gidWithFlags))
    THEN Threw("NoMetadata")
  ELSE IF HasFlippedBits(gidWithFlags) THEN Threw("Flipped")
  ELSE Ok(Tile(MetadataGet(metadata, BaseGid(gidWithFlags)).tileId))

\* mutant of CellMarksCollision: only the layer's flag marks a cell
CellMarksCollision_layerOnly(gidWithFlags, metadata, markLayerCollision) ==
  /\ BaseGid(gidWithFlags) # 0
  /\ markLayerCollision

\* the cell sets its entry of the collision grid
CellMarksCollision(gidWithFlags, metadata, markLayerCollision) ==
  /\ BaseGid(gidWithFlags) # 0
  /\ HasMetadata(metadata, BaseGid(gidWithFlags))
  /\ (markLayerCollision
        \/ MetadataGet(metadata, BaseGid(gidWithFlags)).collides)

\* mutant of LayerWidthMismatch: the width of a layer is not compared
LayerWidthMismatch_unchecked(layer, mapWidth) == FALSE

LayerWidthMismatch(layer, mapWidth) == layer.width # mapWidth

\* convertLayerTiles: the tiles of the layer and the collision grid after
\* it, or the first error thrown.  A write beyond the end of the grid (a
\* Uint8Array) is dropped.
convertLayerTiles(layer, mapWidth, defaultTileId, metadata, collisionGrid, markLayerCollision) ==
  LET n == Len(layer.data)
      out(k) == CellOutcome(layer.data[k], metadata, defaultTileId)
      bad == {k \in 1..n : ~out(k).ok}
      firstBad == CHOOSE k \in bad : \A j \in bad : k <= j
  IN IF n # layer.width * layer.height THEN Threw("TileCount")
     ELSE IF bad # {} THEN Threw(out(firstBad).error)
     ELSE IF LayerWidthMismatch(layer, mapWidth) THEN Threw("LayerWidth")
     ELSE Ok([tiles |-> [k \in 1..n |-> out(k).value],
              collisionGrid |->
                [i \in DOMAIN collisionGrid |->
                   IF i + 1 <= n
                      /\ CellMarksCollision(layer.data[i + 1], metadata,
                                            markLayerCollision)
                     THEN 1
                     ELSE collisionGrid[i]]])

\* new TileLayer(name, width, height, tiles, { zIndex }) of the converter's
\* map: row-major tiles; a tile count other than width x height fails
TileLayer_fromTiles(name, width, height, tiles, zIndex) ==
  IF Len(tiles) # width * height THEN Threw("TileLayerShape")
  ELSE Ok([name |-> name, zIndex |-> zIndex, width |-> width,
           height |-> height,
           tiles |-> [c \in Cells(width, height) |->
                        tiles[c[2] * width + c[1] + 1]]])

RECURSIVE AddLayers(_, _)
AddLayers(tm, layers) ==
  IF layers = <<>> THEN tm
  ELSE AddLayers(TileMap_addLayer(tm, Head(layers)), Tail(layers))

\* new TileMap(width, height, tileSize, tileLayers, collisionGrid)
TileMap_fromLayers(width, height, tileSize, tileLayers, collisionGrid) ==
  [AddLayers(TileMap_new(width, height, tileSize), tileLayers)
     EXCEPT !.collisionGrid = collisionGrid]

\* mutant of ConvertLayer: a layer that is not visible is converted like
\* any other
ConvertLayer_convertsHidden(doc, opts, metadata, i, acc) ==
  LET layer == doc.layers[i]
      override == opts.layerOverrides[layer.name]
      kind == resolveLayerKind(layer, override)
      zIndex == IF override.hasZIndex THEN override.zIndex
                ELSE resolveLayerZIndex(layer, i - 1)
      collides == IF override.hasCollides THEN override.collides
                  ELSE kind.value = "collision"
      conv == convertLayerTiles(layer, doc.width, opts.defaultTileId,
                                metadata, acc.value.collisionGrid, collides)
      built == TileLayer_fromTiles(layer.name, doc.width, doc.height,
                                   conv.value.tiles, zIndex)
  IN IF layer.type # "tilelayer" THEN acc
     ELSE IF ~kind.ok THEN Threw(kind.error)
     ELSE IF kind.value = "ignore" THEN acc
     ELSE IF ~conv.ok THEN Threw(conv.error)
     ELSE IF kind.value # "tile"
       THEN Ok([acc.value EXCEPT !.collisionGrid = conv.value.collisionGrid])
     ELSE IF ~built.ok THEN Threw(built.error)
     ELSE Ok([collisionGrid |-> conv.value.collisionGrid,
              tileLayers |-> Append(acc.value.tileLayers, built.value)])

\* the body of data.layers.forEach in fromTiled for layer number i (from
\* 1), on the accumulated [collisionGrid, tileLayers]
ConvertLayer(doc, opts, metadata, i, acc) ==
  LET layer == doc.layers[i]
      override == opts.layerOverrides[layer.name]
      kind == resolveLayerKind(layer, override)
      zIndex == IF override.hasZIndex THEN override.zIndex
                ELSE resolveLayerZIndex(layer, i - 1)
      collides == IF override.hasCollides THEN override.collides
                  ELSE kind.value = "collision"
      conv == convertLayerTiles(layer, doc.width, opts.defaultTileId,
                                metadata, acc.value.collisionGrid, collides)
      built == TileLayer_fromTiles(layer.name, doc.width, doc.height,
                                   conv.value.tiles, zIndex)
  IN IF layer.type # "tilelayer" THEN acc
     ELSE IF ~layer.visible THEN acc
     ELSE IF ~kind.ok THEN Threw(kind.error)
     ELSE IF kind.value = "ignore" THEN acc
     ELSE IF ~conv.ok THEN Threw(conv.error)
     ELSE IF kind.value # "tile"
       THEN Ok([acc.value EXCEPT !.collisionGrid = conv.value.collisionGrid])
     ELSE IF ~built.ok THEN Threw(built.error)
     ELSE Ok([collisionGrid |-> conv.value.collisionGrid,
              tileLayers |-> Append(acc.value.tileLayers, built.value)])

RECURSIVE ConvertLayers(_, _, _, _, _)
ConvertLayers(doc, opts, metadata, i, acc) ==
  IF i > Len(doc.layers) \/ ~acc.ok THEN acc
  ELSE ConvertLayers(doc, opts, metadata, i + 1,
                     ConvertLayer(doc, opts, metadata, i, acc))

\* TiledConverter.fromTiled (fromJSON of a parsed document)
fromTiled(doc, opts) ==
  LET metadata == buildTileMetadata(doc)
      start == Ok([collisionGrid |->
                     [i \in 0..(doc.width * doc.height - 1) |-> 0],
                   tileLayers |-> <<>>])
      done == ConvertLayers(doc, opts, metadata.value, 1, start)
  IN IF doc.tilewidth # doc.tileheight THEN Threw("SquareTiles")
     ELSE IF ~metadata.ok THEN Threw(metadata.error)
     ELSE IF ~done.ok THEN Threw(done.error)
     ELSE IF done.value.tileLayers = <<>> THEN Threw("NoTileLayers")
     ELSE Ok(TileMap_fromLayers(doc.width, doc.height, doc.tilewidth,
                                done.value.tileLayers,
                                done.value.collisionGrid))

(***************************************************************************)
(* TileVariants (src/src/world/map/TileVariants.ts)                        *)
(* JavaScript numbers are modelled exactly where the code's result depends *)
(* on their bits: a 32-bit word is a pair of 16-bit halves [hi, lo]; the   *)
(* product in hash2D is formed in digits of base 2^15 (least first) and    *)
(* rounded to the 53 significant bits of a double before ToInt32.  A       *)
(* result that need not be whole is a ratio [num, den].                    *)
(***************************************************************************)
HashMulX == 374761393
HashMulY == 668265263
HashMulH == 1274126177
HashMask == 2147483647

RECURSIVE Pow2(_)
Pow2(n) == IF n = 0 THEN 1 ELSE 2 * Pow2(n - 1)

\* In(v), with the value v computed once
Let(v, In(_)) == CHOOSE r \in {In(x) : x \in {v}} : TRUE

Half == Pow2(16)
Digit == Pow2(15)

\* number of bits of n >= 0
RECURSIVE BitLen(_)
BitLen(n) == IF n = 0 THEN 0 ELSE 1 + BitLen(n \div 2)

\* a ^ b of two numbers below 2^bits
RECURSIVE Xor(_, _, _)
Xor(a, b, bits) ==
  IF bits = 0 THEN 0
  ELSE (IF a % 2 = b % 2 THEN 0 ELSE 1) + 2 * Xor(a \div 2, b \div 2, bits - 1)

Word_xor(a, b) == [hi |-> Xor(a.hi, b.hi, 16), lo |-> Xor(a.lo, b.lo, 16)]

\* a >>> n for 0 < n <= 16
Word_shiftRight(a, n) ==
  [hi |-> a.hi \div Pow2(n),
   lo |-> (a.hi % Pow2(n)) * Pow2(16 - n) + a.lo \div Pow2(n)]

\* the word 2^32 - a (mod 2^32)
Word_negate(a) ==
  [hi |-> (Half - 1 - a.hi + (IF a.lo = 0 THEN 1 ELSE 0)) % Half,
   lo |-> (Half - a.lo) % Half]

\* ToUint32(x * 374761393 + y * 668265263); the sum is exact in a double
Word_ofSum(x, y) ==
  LET lo == x * (HashMulX % Half) + y * (HashMulY % Half)
      hi == x * (HashMulX \div Half) + y * (HashMulY \div Half) + lo \div Half
  IN [hi |-> hi % Half, lo |-> lo % Half]

\* a word read as an int32 is negative
Word_isNegative(a) == a.hi >= Digit

\* the digits of the magnitude of a word read as an int32
Word_magnitude(a) ==
  LET p == IF Word_isNegative(a) THEN Word_negate(a) ELSE a
  IN <<p.lo % Digit, (p.hi % (Digit \div 2)) * 2 + p.lo \div Digit, p.hi \div (Digit \div 2)>>

\* carries of five columns propagated
Digits_normalise(d) ==
  LET s2 == d[2] + d[1] \div Digit
      s3 == d[3] + s2 \div Digit
      s4 == d[4] + s3 \div Digit
      s5 == d[5] + s4 \div Digit
  IN <<d[1] % Digit, s2 % Digit, s3 % Digit, s4 % Digit, s5>>

\* the exact product of a number of three digits and 1274126177
Digits_timesHashMul(a) ==
  LET c == <<HashMulH % Digit, (HashMulH \div Digit) % Digit,
             HashMulH \div (Digit * Digit)>>
      L(i, j) == (a[i] * c[j]) % Digit
      H(i, j) == (a[i] * c[j]) \div Digit
  IN Digits_normalise(
       <<L(1, 1),
         L(1, 2) + L(2, 1) + H(1, 1),
         L(1, 3) + L(2, 2) + L(3, 1) + H(1, 2) + H(2, 1),
         L(2, 3) + L(3, 2) + H(1, 3) + H(2, 2) + H(3, 1),
         L(3, 3) + H(2, 3) + H(3, 2)>>)

\* number of bits of a number of five digits
Digits_bitLen(d) ==
  IF d[5] # 0 THEN 60 + BitLen(d[5])
  ELSE IF d[4] # 0 THEN 45 + BitLen(d[4])
  ELSE IF d[3] # 0 THEN 30 + BitLen(d[3])
  ELSE IF d[2] # 0 THEN 15 + BitLen(d[2])
  ELSE BitLen(d[1])

\* the nearest double to a number of five digits (ties to even): only the
\* 53 leading bits are kept
Digits_toDouble(d) ==
  LET k == Digits_bitLen(d) - 53
      r == d[1] % Pow2(k)
      up == \/ 2 * r > Pow2(k)
            \/ 2 * r = Pow2(k) /\ (d[1] \div Pow2(k)) % 2 = 1
  IN IF k <= 0 THEN d
     ELSE Digits_normalise(
            [d EXCEPT ![1] = d[1] - r + (IF up THEN Pow2(k) ELSE 0)])

\* ToUint32 of a double given by its sign and the digits of its magnitude
Word_ofDouble(negative, d) ==
  LET w == [hi |-> d[2] \div 2 + (d[3] % 4) * (Digit \div 2),
            lo |-> d[1] + (d[2] % 2) * Digit]
  IN IF negative THEN Word_negate(w) ELSE w

\* hash2D up to the mask: (h & 0x7fffffff) of its last h
hash2D_bits(x, y) ==
  Let(Word_ofSum(x, y), LAMBDA h0 :
  Let(Word_xor(h0, Word_shiftRight(h0, 13)), LAMBDA s1 :
  Let(Word_magnitude(s1), LAMBDA magnitude :
  Let(Digits_timesHashMul(magnitude), LAMBDA product :
  Let(Digits_toDouble(product), LAMBDA double :
  Let(Word_ofDouble(Word_isNegative(s1), double), LAMBDA h1 :
  Let(Word_xor(h1, Word_shiftRight(h1, 16)), LAMBDA s2 :
    (s2.hi % Digit) * Half + s2.lo)))))))

\* hash2D: ((h & 0x7fffffff) / 0x7fffffff) * 2 - 1, a value in [-1, 1]
hash2D(x, y) ==
  Let(hash2D_bits(x, y), LAMBDA m :
    [num |-> (m - HashMask) + m, den |-> HashMask])

\* a whole number as a ratio
Whole(n) == [num |-> n, den |-> 1]

\* Math.abs(r) % n for a ratio r and a whole n > 0
Ratio_absMod(r, n) ==
  LET a == IF r.num < 0 THEN -r.num ELSE r.num
  IN [num |-> ((a \div r.den) % n) * r.den + (a % r.den), den |-> r.den]

\* randomVariant: Math.abs(hash2D(x, y)) % count, with no rounding to a
\* whole number
randomVariant(x, y, count) ==
  Let(hash2D(x, y), LAMBDA hash : Ratio_absMod(hash, count))

\* smoothstep(r / scale) = t * t * (3 - 2 * t), as a count of scale^3-ths
smoothstepNum(r, scale) == r * r * (3 * scale - 2 * r)

\* noiseVariant for a whole scale > 0, in exact arithmetic: the lattice
\* hashes n00..n11 enter as (n + 1) / 2 = bits / 0x7fffffff, the two lerps
\* along x and the lerp along y give them the weights below (of W * W),
\* and the result is Math.floor(normalized * count) % count
noiseVariant(x, y, count, scale) ==
  LET x0 == x \div scale
      y0 == y \div scale
      W == scale * scale * scale
      ix == smoothstepNum(x % scale, scale)
      iy == smoothstepNum(y % scale, scale)
      \* the weighted sum of the four bits is SA * 2^16 + SB
      SA(w, bits) ==
        w[1] * (bits[1] \div Half) + w[2] * (bits[2] \div Half)
          + w[3] * (bits[3] \div Half) + w[4] * (bits[4] \div Half)
      SB(w, bits) ==
        w[1] * (bits[1] % Half) + w[2] * (bits[2] % Half)
          + w[3] * (bits[3] % Half) + w[4] * (bits[4] % Half)
      \* k <= normalized * count, that is
      \* k * W * W * 0x7fffffff <= count * (SA * 2^16 + SB)
      AtLeast(k, S) ==
        count * S[1] + (count * S[2] + k * W * W) \div Half
          >= k * W * W * Digit
  IN Let(<<(W - ix) * (W - iy), ix * (W - iy), (W - ix) * iy, ix * iy>>,
         LAMBDA weights :
     Let(<<hash2D_bits(x0, y0), hash2D_bits(x0 + 1, y0),
           hash2D_bits(x0, y0 + 1), hash2D_bits(x0 + 1, y0 + 1)>>,
         LAMBDA bits :
     Let(<<SA(weights, bits), SB(weights, bits)>>, LAMBDA S :
       Whole((CHOOSE k \in 0..count :
                AtLeast(k, S) /\ (k = count \/ ~AtLeast(k + 1, S)))
             % count))))

\* checkerboardVariant: Math.abs(x + y) % count
checkerboardVariant(x, y, count) ==
  Whole((IF x + y < 0 THEN -(x + y) ELSE x + y) % count)

\* the configuration getConfig returns for a kind the table does not hold
DefaultVariantConfig ==
  [count |-> 1, strategy |-> "static", hasNoiseScale |-> FALSE,
   noiseScale |-> 0]

\* the static table of TileVariants: one texture per kind
TileVariants_configs == [id \in TileId |-> DefaultVariantConfig]

TileVariants_getConfig(configs, tileId) ==
  IF tileId \in DOMAIN configs THEN configs[tileId] ELSE DefaultVariantConfig

\* registerVariant: Map.set
TileVariants_registerVariant(configs, tileId, config) ==
  [id \in DOMAIN configs \cup {tileId} |->
     IF id = tileId THEN config ELSE configs[id]]

\* selectVariant
TileVariants_selectVariant(configs, tileId, tileX, tileY) ==
  LET config == TileVariants_getConfig(configs, tileId)
  IN IF config.count <= 1 THEN Whole(0)
     ELSE IF config.strategy = "random"
       THEN randomVariant(tileX, tileY, config.count)
     ELSE IF config.strategy = "noise"
       THEN noiseVariant(tileX, tileY, config.count,
                         IF config.hasNoiseScale THEN config.noiseScale ELSE 2)
     ELSE IF config.strategy = "checkerboard"
       THEN checkerboardVariant(tileX, tileY, config.count)
     ELSE Whole(0)

(***************************************************************************)
(* TileMapRenderer (src/unnamed/part_002)                                  *)
(* A chunk is [chunkX, chunkY, tilemap, isDirty]; its tilemap (a           *)
(* CompositeTilemap) is [zIndex, visible, tiles], tiles the set of         *)
(* [texture, x, y] drawn since the last clear(), a texture being named by  *)
(* its tile kind.  A renderer is [chunks, visibleChunks, textures]: chunks *)
(* maps a layer name to a map from chunk key <<cx, cy>> to chunk.  The     *)
(* fields rendered and warned record the renderChunk calls and the         *)
(* console warnings of the operation in progress.                          *)
(***************************************************************************)
CHUNK_SIZE == 16

\* Math.ceil(a / b) for b > 0
CeilDiv(a, b) == -((-a) \div b)

\* the layer of a map with a name it has
LayerNamed(tm, name) == TileMap_getLayer(tm, name).layer

\* buildChunks: one dirty, empty chunk per region of each layer; a new
\* CompositeTilemap is visible
TileMapRenderer_buildChunks(tm) ==
  [name \in {tm.layers[i].name : i \in 1..Len(tm.layers)} |->
     [key \in (0..(CeilDiv(LayerNamed(tm, name).width, CHUNK_SIZE) - 1))
                \X (0..(CeilDiv(LayerNamed(tm, name).height, CHUNK_SIZE) - 1))
        |-> [chunkX |-> key[1], chunkY |-> key[2],
             tilemap |-> [zIndex |-> LayerNamed(tm, name).zIndex,
                          visible |-> TRUE, tiles |-> {}],
             isDirty |-> TRUE]]]

\* new TileMapRenderer(tileMap, textures)
TileMapRenderer_new(tm, textures) ==
  [chunks |-> TileMapRenderer_buildChunks(tm), visibleChunks |-> {},
   textures |-> textures, rendered |-> {}, warned |-> {}]

\* the tiles of a layer that renderChunk visits for a chunk
ChunkCells(chunk, layer) ==
  LET startX == chunk.chunkX * CHUNK_SIZE
      startY == chunk.chunkY * CHUNK_SIZE
      endX == IF startX + CHUNK_SIZE < layer.width THEN startX + CHUNK_SIZE
              ELSE layer.width
      endY == IF startY + CHUNK_SIZE < layer.height THEN startY + CHUNK_SIZE
              ELSE layer.height
  IN (startX..(endX - 1)) \X (startY..(endY - 1))

\* the tiles renderChunk does not skip as null or empty
ChunkTiles(chunk, layer) ==
  {c \in ChunkCells(chunk, layer) :
     /\ TileLayer_getTile(layer, c[1], c[2]) # NoTile
     /\ TileLayer_getTile(layer, c[1], c[2]).id # "empty"}

\* the tiles for which renderChunk warns: their kind has no texture
MissingTextures(textures, chunk, layer) ==
  {c \in ChunkTiles(chunk, layer) :
     TileLayer_getTile(layer, c[1], c[2]).id \notin textures}

\* mutant of renderChunk: a tile without texture ends the rendering, and
\* the chunk stays as it was cleared
renderChunk_aborts(textures, tileSize, chunk, layer) ==
  IF MissingTextures(textures, chunk, layer) # {}
    THEN [chunk EXCEPT !.tilemap.tiles = {}]
    ELSE [chunk EXCEPT
            !.tilemap.tiles =
               {[texture |-> TileLayer_getTile(layer, c[1], c[2]).id,
                 x |-> c[1] * tileSize, y |-> c[2] * tileSize] :
                  c \in ChunkTiles(chunk, layer)},
            !.isDirty = FALSE]

\* renderChunk: clear, draw every tile that has a texture, clear the flag
renderChunk(textures, tileSize, chunk, layer) ==
  [chunk EXCEPT
     !.tilemap.tiles =
        {[texture |-> TileLayer_getTile(layer, c[1], c[2]).id,
          x |-> c[1] * tileSize, y |-> c[2] * tileSize] :
           c \in ChunkTiles(chunk, layer)
                   \ MissingTextures(textures, chunk, layer)},
     !.isDirty = FALSE]

\* the renderer after renderChunk was called for the chunks in keys, a set
\* of <<layer name, chunk key>> of layers the map has
RenderAll(r, tm, keys) ==
  [r EXCEPT
     !.chunks =
        [name \in DOMAIN r.chunks |->
           [key \in DOMAIN r.chunks[name] |->
              IF <<name, key>> \in keys
                THEN renderChunk(r.textures, tm.tileSizePx,
                                 r.chunks[name][key], LayerNamed(tm, name))
                ELSE r.chunks[name][key]]],
     !.rendered = @ \cup keys,
     !.warned = @ \cup
        UNION {{<<k[1], c>> :
                  c \in MissingTextures(r.textures, r.chunks[k[1]][k[2]],
                                        LayerNamed(tm, k[1]))} : k \in keys}]

\* every <<layer name, chunk key>> of the renderer
AllChunks(r) ==
  UNION {{<<name, key>> : key \in DOMAIN r.chunks[name]} :
           name \in DOMAIN r.chunks}

\* mutant of VisibleRange: no buffer chunk around the camera
VisibleRange_noBuffer(tm, bounds) ==
  LET chunkPx == CHUNK_SIZE * tm.tileSizePx
  IN ((bounds.left \div chunkPx)..CeilDiv(bounds.right, chunkPx))
       \X ((bounds.top \div chunkPx)..CeilDiv(bounds.bottom, chunkPx))

\* newVisibleChunks of updateCulling: the chunks the camera meets and one
\* more on every side
VisibleRange(tm, bounds) ==
  LET chunkPx == CHUNK_SIZE * tm.tileSizePx
      buffer == 1
  IN ((bounds.left \div chunkPx - buffer)
        ..(CeilDiv(bounds.right, chunkPx) + buffer))
       \X ((bounds.top \div chunkPx - buffer)
             ..(CeilDiv(bounds.bottom, chunkPx) + buffer))

\* mutant of updateCulling: a chunk that comes into view is shown as it is
TileMapRenderer_updateCulling_noRender(r, tm, bounds) ==
  LET new == VisibleRange(tm, bounds)
      known == {k \in AllChunks(r) : TileMap_getLayer(tm, k[1]).found}
      shown == {k \in known : k[2] \in new /\ k[2] \notin r.visibleChunks}
      hidden == {k \in known : k[2] \notin new /\ k[2] \in r.visibleChunks}
  IN [r EXCEPT
        !.chunks =
           [name \in DOMAIN r.chunks |->
              [key \in DOMAIN r.chunks[name] |->
                 IF <<name, key>> \in shown
                   THEN [r.chunks[name][key] EXCEPT !.tilemap.visible = TRUE]
                 ELSE IF <<name, key>> \in hidden
                   THEN [r.chunks[name][key] EXCEPT !.tilemap.visible = FALSE]
                 ELSE r.chunks[name][key]]],
        !.visibleChunks = new]

\* mutant of updateCulling: a chunk that comes into view is rendered whether
\* it is dirty or not
TileMapRenderer_updateCulling_eager(r, tm, bounds) ==
  LET new == VisibleRange(tm, bounds)
      known == {k \in AllChunks(r) : TileMap_getLayer(tm, k[1]).found}
      shown == {k \in known : k[2] \in new /\ k[2] \notin r.visibleChunks}
      hidden == {k \in known : k[2] \notin new /\ k[2] \in r.visibleChunks}
      drawn == RenderAll(r, tm, shown)
  IN [drawn EXCEPT
        !.chunks =
           [name \in DOMAIN r.chunks |->
              [key \in DOMAIN r.chunks[name] |->
                 IF <<name, key>> \in shown
                   THEN [drawn.chunks[name][key] EXCEPT
                           !.tilemap.visible = TRUE]
                 ELSE IF <<name, key>> \in hidden
                   THEN [drawn.chunks[name][key] EXCEPT
                           !.tilemap.visible = FALSE]
                 ELSE drawn.chunks[name][key]]],
        !.visibleChunks = new]

\* updateCulling(cameraBounds)
TileMapRenderer_updateCulling(r, tm, bounds) ==
  LET new == VisibleRange(tm, bounds)
      known == {k \in AllChunks(r) : TileMap_getLayer(tm, k[1]).found}
      shown == {k \in known : k[2] \in new /\ k[2] \notin r.visibleChunks}
      hidden == {k \in known : k[2] \notin new /\ k[2] \in r.visibleChunks}
      drawn == RenderAll(r, tm, {k \in shown : r.chunks[k[1]][k[2]].isDirty})
  IN [drawn EXCEPT
        !.chunks =
           [name \in DOMAIN r.chunks |->
              [key \in DOMAIN r.chunks[name] |->
                 IF <<name, key>> \in shown
                   THEN [drawn.chunks[name][key] EXCEPT
                           !.tilemap.visible = TRUE]
                 ELSE IF <<name, key>> \in hidden
                   THEN [drawn.chunks[name][key] EXCEPT
                           !.tilemap.visible = FALSE]
                 ELSE drawn.chunks[name][key]]],
        !.visibleChunks = new]

\* the chunk key of tile (tx, ty)
ChunkKeyOf(tx, ty) == <<tx \div CHUNK_SIZE, ty \div CHUNK_SIZE>>

\* mutant of markTileDirty: the chunk is flagged and left for the next
\* updateCulling
TileMapRenderer_markTileDirty_deferred(r, tm, layerName, tx, ty) ==
  IF layerName \notin DOMAIN r.chunks THEN r
  ELSE IF ChunkKeyOf(tx, ty) \notin DOMAIN r.chunks[layerName] THEN r
  ELSE [r EXCEPT !.chunks[layerName][ChunkKeyOf(tx, ty)].isDirty = TRUE]

\* markTileDirty(layerName, tx, ty)
TileMapRenderer_markTileDirty(r, tm, layerName, tx, ty) ==
  LET key == ChunkKeyOf(tx, ty)
      flagged == [r EXCEPT !.chunks[layerName][key].isDirty = TRUE]
  IN IF layerName \notin DOMAIN r.chunks THEN r
     ELSE IF key \notin DOMAIN r.chunks[layerName] THEN r
     ELSE IF key \in r.visibleChunks /\ TileMap_getLayer(tm, layerName).found
       THEN RenderAll(flagged, tm, {<<layerName, key>>})
     ELSE flagged

\* mutant of rebuildLayer: every chunk of the layer is rendered
TileMapRenderer_rebuildLayer_renderAll(r, tm, layerName) ==
  IF layerName \notin DOMAIN r.chunks \/ ~TileMap_getLayer(tm, layerName).found
    THEN r
    ELSE RenderAll(r, tm,
                   {<<layerName, key>> : key \in DOMAIN r.chunks[layerName]})

\* rebuildLayer(layerName)
TileMapRenderer_rebuildLayer(r, tm, layerName) ==
  IF layerName \notin DOMAIN r.chunks \/ ~TileMap_getLayer(tm, layerName).found
    THEN r
    ELSE RenderAll(
           [r EXCEPT !.chunks[layerName] =
              [key \in DOMAIN r.chunks[layerName] |->
                 [r.chunks[layerName][key] EXCEPT !.isDirty = TRUE]]],
           tm,
           {<<layerName, key>> : key \in DOMAIN r.chunks[layerName]
                                   \cap r.visibleChunks})

\* rebuildAll(): rebuildLayer for the names in names, one after another
RECURSIVE RebuildLayers(_, _, _)
RebuildLayers(r, tm, names) ==
  IF names = {} THEN r
  ELSE LET name == CHOOSE n \in names : TRUE
       IN RebuildLayers(TileMapRenderer_rebuildLayer(r, tm, name), tm,
                        names \ {name})

TileMapRenderer_rebuildAll(r, tm) == RebuildLayers(r, tm, DOMAIN r.chunks)

(***************************************************************************)
(* World.isBlocked                                                         *)
(***************************************************************************)
\* Player.getJumpHeight(): the height of the player's jump physics
getJumpHeight(p) == p.height

\* World.isBlocked(worldX, worldY) for world w and the player's physics p
World_isBlocked(w, p, worldX, worldY) ==
  IF ~w.loaded THEN FALSE
  ELSE LET t == TileMap_worldToTile(w.tm, worldX, worldY)
           isBlockedTile == TileMap_isBlocked(w.tm, t.tx, t.ty)
           jumpHeight == getJumpHeight(p)
           tile == TileMap_getTileAt(w.tm, t.tx, t.ty)
       IN IF ~isBlockedTile THEN FALSE
          ELSE IF jumpHeight > 0 /\ tile # NoTile
                  /\ canJumpOver(tile.id, jumpHeight)
            THEN FALSE
            ELSE TRUE

(***************************************************************************)
(* Player (the moving entity): getActionIntent, Player.update and          *)
(* Player.checkCollision                                                   *)
(*                                                                         *)
(* Velocities are kept in 1/VelScale px/s, the move vector and the drag    *)
(* factor in 1/UnitScale, and the positions proposed during a tick in      *)
(* 1/PosScale px, so that x + vx * (dt / 60) is exact for a tick of dt     *)
(* frames.  Products are truncated to these units where the code keeps a   *)
(* double.  The position of the entity is in whole pixels (Math.round).    *)
(***************************************************************************)
VelScale == 100
UnitScale == 10000
PosScale == 60 * VelScale
\* a tick length is a whole number of 1/FrameParts frames (dtSec = dt / 60)
FrameParts == 6

\* the options World hands to new Player(...)
PlayerOptions ==
  [hitboxWidth |-> 12, hitboxHeight |-> 8, hitboxOffsetX |-> 0,
   hitboxOffsetY |-> 8, maxSpeed |-> 150, drag |-> 12, accel |-> 5000]

\* Math.floor(Math.sqrt(n)) by bisection: lo * lo <= n < hi * hi
RECURSIVE SqrtBetween(_, _, _)
SqrtBetween(n, lo, hi) ==
  IF hi - lo <= 1 THEN lo
  ELSE Let((lo + hi) \div 2,
           LAMBDA mid : IF mid * mid <= n THEN SqrtBetween(n, mid, hi)
                        ELSE SqrtBetween(n, lo, mid))

\* Math.hypot(a, b)
hypot(a, b) == Let(a * a + b * b, LAMBDA n : SqrtBetween(n, 0, 46340))

\* Math.exp(x) for x <= 0 in 1/UnitScale: the power series, term by term
RECURSIVE ExpSeries(_, _, _)
ExpSeries(x, term, k) ==
  IF term = 0 THEN 0
  ELSE term + Let(TruncDiv(term * x, k * UnitScale),
                  LAMBDA next : ExpSeries(x, next, k + 1))

exp(x) == ExpSeries(x, UnitScale, 1)

\* getActionIntent(keys): the move vector in 1/UnitScale, a diagonal
\* scaled by 1 / Math.sqrt(2) = Math.sqrt(2) / 2
getActionIntent(keys) ==
  LET x == (IF keys.right THEN 1 ELSE 0) - (IF keys.left THEN 1 ELSE 0)
      y == (IF keys.down THEN 1 ELSE 0) - (IF keys.up THEN 1 ELSE 0)
      inv == IF x # 0 /\ y # 0 THEN hypot(UnitScale, UnitScale) \div 2
             ELSE UnitScale
  IN [move |-> [x |-> x * inv, y |-> y * inv]]

\* mutant of checkPoints: the centre of the hitbox is a ninth sample point
checkPoints_withCentre(opts, worldX, worldY) ==
  LET epsilon == PosScale \div 10
      left == worldX + opts.hitboxOffsetX * PosScale
                - (opts.hitboxWidth * PosScale) \div 2 + epsilon
      right == worldX + opts.hitboxOffsetX * PosScale
                + (opts.hitboxWidth * PosScale) \div 2 - epsilon
      top == worldY + opts.hitboxOffsetY * PosScale
                - (opts.hitboxHeight * PosScale) \div 2 + epsilon
      bottom == worldY + opts.hitboxOffsetY * PosScale
                + (opts.hitboxHeight * PosScale) \div 2 - epsilon
  IN << <<left, top>>, <<right, top>>, <<left, bottom>>, <<right, bottom>>,
        <<worldX, top>>, <<worldX, bottom>>, <<left, worldY>>,
        <<right, worldY>>,
        <<worldX + opts.hitboxOffsetX * PosScale,
          worldY + opts.hitboxOffsetY * PosScale>> >>

\* the eight sample points of checkCollision, in the order they are tried
checkPoints(opts, worldX, worldY) ==
  LET epsilon == PosScale \div 10
      left == worldX + opts.hitboxOffsetX * PosScale
                - (opts.hitboxWidth * PosScale) \div 2 + epsilon
      right == worldX + opts.hitboxOffsetX * PosScale
                + (opts.hitboxWidth * PosScale) \div 2 - epsilon
      top == worldY + opts.hitboxOffsetY * PosScale
                - (opts.hitboxHeight * PosScale) \div 2 + epsilon
      bottom == worldY + opts.hitboxOffsetY * PosScale
                + (opts.hitboxHeight * PosScale) \div 2 - epsilon
  IN << <<left, top>>, <<right, top>>, <<left, bottom>>, <<right, bottom>>,
        <<worldX, top>>, <<worldX, bottom>>, <<left, worldY>>,
        <<right, worldY>> >>

\* this.isBlocked(point.x, point.y): World.isBlocked, bound by World.  The
\* tile of a point is floor(p / tileSizePx), the same for p and floor(p).
Player_isBlocked(w, p, point) ==
  World_isBlocked(w, p, point[1] \div PosScale, point[2] \div PosScale)

\* Player.checkCollision(worldX, worldY): whether a sample point is
\* blocked, and the number of isBlocked calls made to find out
Player_checkCollision(w, p, opts, worldX, worldY) ==
  LET points == checkPoints(opts, worldX, worldY)
      hits == {i \in 1..Len(points) : Player_isBlocked(w, p, points[i])}
  IN IF hits = {} THEN [collides |-> FALSE, calls |-> Len(points)]
     ELSE [collides |-> TRUE,
           calls |-> CHOOSE i \in hits : \A j \in hits : i <= j]

\* mutant of Player_slide: a vertical slide leaves vx as it is
Player_slide_keepsVx(w, p, opts, x, y, newX, newY) ==
  LET diagonal == Player_checkCollision(w, p, opts, newX, newY)
      horizontal == Player_checkCollision(w, p, opts, newX, y)
      vertical == Player_checkCollision(w, p, opts, x, newY)
  IN IF ~diagonal.collides
       THEN [finalX |-> newX, finalY |-> newY, blockedX |-> FALSE,
             blockedY |-> FALSE, calls |-> diagonal.calls]
     ELSE IF ~horizontal.collides
       THEN [finalX |-> newX, finalY |-> y, blockedX |-> FALSE,
             blockedY |-> TRUE, calls |-> diagonal.calls + horizontal.calls]
     ELSE IF ~vertical.collides
       THEN [finalX |-> x, finalY |-> newY, blockedX |-> FALSE,
             blockedY |-> FALSE,
             calls |-> diagonal.calls + horizontal.calls + vertical.calls]
     ELSE [finalX |-> x, finalY |-> y, blockedX |-> TRUE, blockedY |-> TRUE,
           calls |-> diagonal.calls + horizontal.calls + vertical.calls]

\* mutant of Player_slide: the vertical-only move is taken untested when
\* the horizontal-only move collides
Player_slide_untestedY(w, p, opts, x, y, newX, newY) ==
  LET diagonal == Player_checkCollision(w, p, opts, newX, newY)
      horizontal == Player_checkCollision(w, p, opts, newX, y)
  IN IF ~diagonal.collides
       THEN [finalX |-> newX, finalY |-> newY, blockedX |-> FALSE,
             blockedY |-> FALSE, calls |-> diagonal.calls]
     ELSE IF ~horizontal.collides
       THEN [finalX |-> newX, finalY |-> y, blockedX |-> FALSE,
             blockedY |-> TRUE, calls |-> diagonal.calls + horizontal.calls]
     ELSE [finalX |-> x, finalY |-> newY, blockedX |-> TRUE,
           blockedY |-> FALSE, calls |-> diagonal.calls + horizontal.calls]

\* mutant of Player_slide: a completely blocked tick keeps the vertical
\* velocity
Player_slide_holdKeepsVy(w, p, opts, x, y, newX, newY) ==
  LET diagonal == Player_checkCollision(w, p, opts, newX, newY)
      horizontal == Player_checkCollision(w, p, opts, newX, y)
      vertical == Player_checkCollision(w, p, opts, x, newY)
  IN IF ~diagonal.collides
       THEN [finalX |-> newX, finalY |-> newY, blockedX |-> FALSE,
             blockedY |-> FALSE, calls |-> diagonal.calls]
     ELSE IF ~horizontal.collides
       THEN [finalX |-> newX, finalY |-> y, blockedX |-> FALSE,
             blockedY |-> TRUE, calls |-> diagonal.calls + horizontal.calls]
     ELSE IF ~vertical.collides
       THEN [finalX |-> x, finalY |-> newY, blockedX |-> TRUE,
             blockedY |-> FALSE,
             calls |-> diagonal.calls + horizontal.calls + vertical.calls]
     ELSE [finalX |-> x, finalY |-> y, blockedX |-> TRUE, blockedY |-> FALSE,
           calls |-> diagonal.calls + horizontal.calls + vertical.calls]

\* Player.update, collision with the hitbox ("try sliding along walls"):
\* the position to take, the axes that were blocked, and the number of
\* isBlocked calls made
Player_slide(w, p, opts, x, y, newX, newY) ==
  LET diagonal == Player_checkCollision(w, p, opts, newX, newY)
      horizontal == Player_checkCollision(w, p, opts, newX, y)
      vertical == Player_checkCollision(w, p, opts, x, newY)
  IN IF ~diagonal.collides
       THEN [finalX |-> newX, finalY |-> newY, blockedX |-> FALSE,
             blockedY |-> FALSE, calls |-> diagonal.calls]
     ELSE IF ~horizontal.collides
       THEN [finalX |-> newX, finalY |-> y, blockedX |-> FALSE,
             blockedY |-> TRUE, calls |-> diagonal.calls + horizontal.calls]
     ELSE IF ~vertical.collides
       THEN [finalX |-> x, finalY |-> newY, blockedX |-> TRUE,
             blockedY |-> FALSE,
             calls |-> diagonal.calls + horizontal.calls + vertical.calls]
     ELSE [finalX |-> x, finalY |-> y, blockedX |-> TRUE, blockedY |-> TRUE,
           calls |-> diagonal.calls + horizontal.calls + vertical.calls]

\* mutant of Math_round: Math.ceil
Math_round_up(v) == (v + PosScale - 1) \div PosScale

\* Math.round of a position in 1/PosScale px: floor(v + 0.5)
Math_round(v) == (v + PosScale \div 2) \div PosScale

\* Player.update(dt) with dt = num / den frames: accelerate toward the
\* intent, apply drag, clamp to maxSpeed, propose, slide, snap to whole
\* pixels.  tick records what the update computed.
Player_updateFor(pl, w, p, opts, keys, num, den) ==
  LET move == getActionIntent(keys).move
      ax == TruncDiv(move.x * opts.accel * num,
                     60 * den * (UnitScale \div VelScale))
      ay == TruncDiv(move.y * opts.accel * num,
                     60 * den * (UnitScale \div VelScale))
      dragFactor == exp(-((opts.drag * num * UnitScale) \div (60 * den)))
      vx1 == TruncDiv((pl.vx + ax) * dragFactor, UnitScale)
      vy1 == TruncDiv((pl.vy + ay) * dragFactor, UnitScale)
      maxSpeed == opts.maxSpeed * VelScale
      over == vx1 * vx1 + vy1 * vy1 > maxSpeed * maxSpeed
      speed == hypot(vx1, vy1)
      vx == IF over THEN TruncDiv(vx1 * maxSpeed, speed) ELSE vx1
      vy == IF over THEN TruncDiv(vy1 * maxSpeed, speed) ELSE vy1
      newX == pl.x * PosScale + TruncDiv(vx * num, den)
      newY == pl.y * PosScale + TruncDiv(vy * num, den)
      s == Let(<<newX, newY>>,
               LAMBDA new : Player_slide(w, p, opts, pl.x * PosScale,
                                         pl.y * PosScale, new[1], new[2]))
  IN [x |-> Math_round(s.finalX), y |-> Math_round(s.finalY),
      vx |-> IF s.blockedX THEN 0 ELSE vx,
      vy |-> IF s.blockedY THEN 0 ELSE vy,
      tick |-> [ran |-> TRUE, x |-> pl.x, y |-> pl.y, vx |-> vx, vy |-> vy,
                newX |-> newX, newY |-> newY, finalX |-> s.finalX,
                finalY |-> s.finalY, clamped |-> over, calls |-> s.calls]]

\* Player.update(dt) with dt a whole number of frames
Player_update(pl, w, p, opts, keys, dt) ==
  Player_updateFor(pl, w, p, opts, keys, dt, 1)

(***************************************************************************)
(* Observation of the jump subsystem (history, not program state)          *)
(*   op        the operation that produced the current state               *)
(*   prevPhase the phase before that operation                             *)
(*   argH      the height argument of the last JumpState.update            *)
(*   changes   the phase changes made by the operation, in order           *)
(*   landMs    tick time accumulated since the Landing phase began (-1:    *)
(*             not landing)                                                *)
(*   pressAge  tick time accumulated since the last bufferJump() made      *)
(*             while airborne (-1: none pending)                           *)
(*   lead      pressAge at touchdown, kept until the next jump (-1: none)  *)
(*   n         number of operations, or of presses, counted for the bound  *)
(*   gridBefore  the collision grid before the last                        *)
(*             syncCollisionFromTiles()                                    *)
(***************************************************************************)
HistInit ==
  [op |-> "new", prevPhase |-> Grounded, argH |-> 0, changes |-> <<>>,
   landMs |-> -1, pressAge |-> -1, lead |-> -1, n |-> 0,
   gridBefore |-> [i \in 0..(MapWidth * MapHeight - 1) |-> 0]]

Change(from, to) == IF from = to THEN <<>> ELSE <<<<from, to>>>>

\* history after JumpState.update took s to t with tick dtMs and height h
HistUpdate(hs, s, t, dtMs, h) ==
  LET touchdown == s.phase # Landing /\ t.phase = Landing
      age == IF hs.pressAge >= 0 THEN hs.pressAge + dtMs ELSE -1
  IN [hs EXCEPT
        !.op = "update", !.prevPhase = s.phase, !.argH = h,
        !.changes = Change(s.phase, t.phase),
        !.landMs = IF touchdown THEN 0
                   ELSE IF s.phase = Landing THEN hs.landMs + dtMs
                   ELSE -1,
        !.pressAge = IF touchdown \/ ~isAirborne(t) THEN -1 ELSE age,
        !.lead = IF touchdown THEN age ELSE hs.lead]

\* history after an operation other than update took s to t
HistOp(hs, name, s, t) ==
  [hs EXCEPT
     !.op = name, !.prevPhase = s.phase,
     !.changes = Change(s.phase, t.phase),
     !.landMs = IF t.phase = Landing THEN hs.landMs ELSE -1,
     !.pressAge = IF name = "bufferJump" /\ isAirborne(s) THEN 0
                  ELSE IF name = "startJump" \/ name = "clearBuffer"
                         \/ name = "forceGrounded" THEN -1
                  ELSE hs.pressAge,
     !.lead = IF name = "startJump" \/ name = "clearBuffer" THEN -1
              ELSE hs.lead]

(***************************************************************************)
(* Idle values of the parts a specification does not use                   *)
(***************************************************************************)
ScnIdle == [dt |-> 0, started |-> FALSE, seq |-> <<>>, descended |-> FALSE,
            reascended |-> FALSE]
LaIdle == [x |-> 0, y |-> 0, landingBlocked |-> FALSE, valid |-> {},
           pushOutEnabled |-> TRUE, op |-> "new", result |-> <<>>]
WorldIdle == [loaded |-> FALSE, tm |-> TileMap_new(0, 0, TileSize)]
QryIdle == [asked |-> FALSE, x |-> 0, y |-> 0, result |-> FALSE]

(***************************************************************************)
(* The tick loop of a jumping entity (Spec)                                *)
(*   read input -> jump initiation or buffering -> JumpPhysics.update with *)
(*   the current phase -> JumpState.update with the integrator's output -> *)
(*   a buffered jump fires on reaching Grounded while jump is held         *)
(***************************************************************************)
TickLengths == {16, 50, MaxTickMs}

Init ==
  /\ physics = JumpPhysics_new
  /\ js = JumpState_new
  /\ hist = HistInit
  /\ scn = ScnIdle
  /\ la = LaIdle
  /\ world = WorldIdle
  /\ qry = QryIdle

\* jump pressed while eligible: JumpPhysics.jump() and JumpState.startJump()
JumpInitiate ==
  /\ hist.n < MaxPresses
  /\ canJump(js)
  /\ physics' = JumpPhysics_jump(physics)
  /\ js' = JumpState_startJump(js)
  /\ hist' = [HistOp(hist, "startJump", js, js') EXCEPT !.n = @ + 1]
  /\ UNCHANGED <<scn, la, world, qry>>

\* jump pressed while airborne and not eligible: JumpState.bufferJump()
BufferPress ==
  /\ hist.n < MaxPresses
  /\ ~canJump(js)
  /\ isAirborne(js)
  /\ js' = JumpState_bufferJump(js)
  /\ hist' = [HistOp(hist, "bufferJump", js, js') EXCEPT !.n = @ + 1]
  /\ UNCHANGED <<physics, scn, la, world, qry>>

\* one tick of dtMs; held: the jump key is down at the end of the tick
Tick(dtMs, held) ==
  LET p1 == JumpPhysics_update(physics, dtMs, js.phase)
      s1 == JumpState_update(js, dtMs, p1.height, p1.velocity)
      h1 == HistUpdate(hist, js, s1, dtMs, p1.height)
      fire == held /\ isGrounded(s1) /\ hasBufferedJump(s1)
  IN /\ physics' = IF fire THEN JumpPhysics_jump(p1) ELSE p1
     /\ js' = IF fire THEN JumpState_startJump(s1) ELSE s1
     /\ hist' = IF fire
                  THEN [HistOp(h1, "startJump", s1, js') EXCEPT
                          !.prevPhase = js.phase,
                          !.changes = h1.changes \o Change(s1.phase, Rising)]
                  ELSE h1
     /\ UNCHANGED <<scn, la, world, qry>>

TickStep == \E dtMs \in TickLengths, held \in BOOLEAN : Tick(dtMs, held)

Next == JumpInitiate \/ BufferPress \/ TickStep

Spec == Init /\ [][Next]_vars

(***************************************************************************)
(* The tick loop with ticks of 25 ms, on which a fall can end at height     *)
(* exactly 0 (SpecTouchdown)                                               *)
(***************************************************************************)
TouchdownTickLengths == {25, MaxTickMs}

TouchdownTick ==
  \E dtMs \in TouchdownTickLengths, held \in BOOLEAN : Tick(dtMs, held)

NextTouchdown == JumpInitiate \/ BufferPress \/ TouchdownTick

SpecTouchdown == Init /\ [][NextTouchdown]_vars

(***************************************************************************)
(* The documented scenario (SpecScenario): an entity at rest, one jump     *)
(* initiation, then ticks of one fixed length scn.dt until it is Grounded  *)
(* again.                                                                  *)
(*   seq        the phases observed, one entry per change                  *)
(*   descended  the height has decreased in some tick                      *)
(*   reascended the height has increased in a tick after it had decreased  *)
(***************************************************************************)
InitScenario ==
  /\ physics = JumpPhysics_new
  /\ js = JumpState_new
  /\ hist = HistInit
  /\ scn \in {[dt |-> d, started |-> FALSE, seq |-> <<Grounded>>,
               descended |-> FALSE, reascended |-> FALSE] : d \in 1..MaxTickMs}
  /\ la = LaIdle
  /\ world = WorldIdle
  /\ qry = QryIdle

ScenarioJump ==
  /\ ~scn.started
  /\ physics' = JumpPhysics_jump(physics)
  /\ js' = JumpState_startJump(js)
  /\ hist' = HistOp(hist, "startJump", js, js')
  /\ scn' = [scn EXCEPT !.started = TRUE, !.seq = Append(@, js'.phase)]
  /\ UNCHANGED <<la, world, qry>>

ScenarioTick ==
  /\ scn.started
  /\ js.phase # Grounded
  /\ physics' = JumpPhysics_update(physics, scn.dt, js.phase)
  /\ js' = JumpState_update(js, scn.dt, physics'.height, physics'.velocity)
  /\ hist' = HistUpdate(hist, js, js', scn.dt, physics'.height)
  /\ scn' = [scn EXCEPT
       !.seq = IF js'.phase # js.phase THEN Append(@, js'.phase) ELSE @,
       !.descended = @ \/ physics'.height < physics.height,
       !.reascended = @ \/ (scn.descended /\ physics'.height > physics.height)]
  /\ UNCHANGED <<la, world, qry>>

NextScenario == ScenarioJump \/ ScenarioTick

SpecScenario == InitScenario /\ [][NextScenario]_vars

(***************************************************************************)
(* JumpPhysics driven freely (SpecPhysics): any sequence of jump, update   *)
(* with any tick length >= 0 and any phase, cancelRise and reset           *)
(***************************************************************************)
PhysTicks == {0, 16, 50, MaxTickMs}

PJump ==
  /\ hist.n < MaxPhysOps
  /\ physics' = JumpPhysics_jump(physics)
  /\ hist' = [hist EXCEPT !.op = "jump", !.n = @ + 1]
  /\ UNCHANGED <<js, scn, la, world, qry>>

PUpdate ==
  /\ hist.n < MaxPhysOps
  /\ \E dtMs \in PhysTicks, phase \in JumpPhase :
       /\ physics' = JumpPhysics_update(physics, dtMs, phase)
       /\ hist' = [hist EXCEPT !.op = "physics.update", !.prevPhase = phase,
                               !.n = @ + 1]
  /\ UNCHANGED <<js, scn, la, world, qry>>

PCancelRise ==
  /\ hist.n < MaxPhysOps
  /\ physics' = JumpPhysics_cancelRise(physics)
  /\ hist' = [hist EXCEPT !.op = "cancelRise", !.n = @ + 1]
  /\ UNCHANGED <<js, scn, la, world, qry>>

PReset ==
  /\ hist.n < MaxPhysOps
  /\ physics' = JumpPhysics_reset(physics)
  /\ hist' = [hist EXCEPT !.op = "reset", !.n = @ + 1]
  /\ UNCHANGED <<js, scn, la, world, qry>>

NextPhysics == PJump \/ PUpdate \/ PCancelRise \/ PReset

SpecPhysics == Init /\ [][NextPhysics]_vars

(***************************************************************************)
(* JumpState driven freely (SpecState): any sequence of its public         *)
(* operations, update being fed any height and velocity                    *)
(***************************************************************************)
StateTicks == {16, 50, MaxTickMs}
StateHeights == {-HScale, 0, 5 * HScale}
StateVelocities == {-VScale, 0, VScale}

SUpdate ==
  /\ hist.n < MaxStateOps
  /\ \E dtMs \in StateTicks, h \in StateHeights, v \in StateVelocities :
       /\ js' = JumpState_update(js, dtMs, h, v)
       /\ hist' = [HistUpdate(hist, js, js', dtMs, h) EXCEPT !.n = @ + 1]
  /\ UNCHANGED <<physics, scn, la, world, qry>>

SStartJump ==
  /\ hist.n < MaxStateOps
  /\ js' = JumpState_startJump(js)
  /\ hist' = [HistOp(hist, "startJump", js, js') EXCEPT !.n = @ + 1]
  /\ UNCHANGED <<physics, scn, la, world, qry>>

SBufferJump ==
  /\ hist.n < MaxStateOps
  /\ js' = JumpState_bufferJump(js)
  /\ hist' = [HistOp(hist, "bufferJump", js, js') EXCEPT !.n = @ + 1]
  /\ UNCHANGED <<physics, scn, la, world, qry>>

SClearBuffer ==
  /\ hist.n < MaxStateOps
  /\ js' = JumpState_clearBuffer(js)
  /\ hist' = [HistOp(hist, "clearBuffer", js, js') EXCEPT !.n = @ + 1]
  /\ UNCHANGED <<physics, scn, la, world, qry>>

SForceGrounded ==
  /\ hist.n < MaxStateOps
  /\ js' = JumpState_forceGrounded(js)
  /\ hist' = [HistOp(hist, "forceGrounded", js, js') EXCEPT !.n = @ + 1]
  /\ UNCHANGED <<physics, scn, la, world, qry>>

NextState ==
  SUpdate \/ SStartJump \/ SBufferJump \/ SClearBuffer \/ SForceGrounded

SpecState == Init /\ [][NextState]_vars

(***************************************************************************)
(* LandingAssist called once (SpecLanding): the landing point, the         *)
(* configuration flag and the blocking predicate are drawn in the initial  *)
(* state; the predicate unblocks at most MaxValid of the probed positions  *)
(***************************************************************************)
Radii == {r \in 1..checkRadius : r % searchStep = 0}

ProbeOffsets ==
  UNION {{<<r, 0>>, <<-r, 0>>, <<0, r>>, <<0, -r>>,
          <<r, r>>, <<-r, r>>, <<r, -r>>, <<-r, -r>>} : r \in Radii}

RECURSIVE SubsetsUpTo(_)
SubsetsUpTo(n) ==
  IF n = 0 THEN {{}}
  ELSE LET smaller == SubsetsUpTo(n - 1)
       IN smaller \cup {v \cup {o} : v \in smaller, o \in ProbeOffsets}

LandingPoints == {<<0, 0>>, <<40, 25>>}

InitLanding ==
  /\ physics = JumpPhysics_new
  /\ js = JumpState_new
  /\ hist = HistInit
  /\ scn = ScnIdle
  /\ la \in {[x |-> pt[1], y |-> pt[2], landingBlocked |-> b, valid |-> v,
              pushOutEnabled |-> e, op |-> "new", result |-> null] :
               pt \in LandingPoints, b \in BOOLEAN, e \in BOOLEAN,
               v \in SubsetsUpTo(MaxValid)}
  /\ world = WorldIdle
  /\ qry = QryIdle

AssistLanding ==
  /\ la.op = "new"
  /\ la' = [la EXCEPT !.op = "assistLanding", !.result = assistLanding(la)]
  /\ UNCHANGED <<physics, js, hist, scn, world, qry>>

FindNearestValidPosition ==
  /\ la.op = "new"
  /\ la' = [la EXCEPT !.op = "findNearestValidPosition",
                      !.result = findNearestValidPosition(la)]
  /\ UNCHANGED <<physics, js, hist, scn, world, qry>>

NextLanding == AssistLanding \/ FindNearestValidPosition

SpecLanding == InitLanding /\ [][NextLanding]_vars

(***************************************************************************)
(* The tile world queried by World.isBlocked (SpecWorld): a map of         *)
(* MapWidth x MapHeight tiles with a ground layer (z 0, grass) and an      *)
(* objects layer (z 5, empty) is edited, handed to the world by start(),   *)
(* and queried at one position while the player is at some jump height     *)
(***************************************************************************)
BaseMap ==
  TileMap_addLayer(
    TileMap_addLayer(
      TileMap_new(MapWidth, MapHeight, TileSize),
      TileLayer_fill(TileLayer_new("ground", MapWidth, MapHeight, 0),
                     Tile("grass"))),
    TileLayer_new("objects", MapWidth, MapHeight, 5))

\* jump heights of the player, in micro-pixels: on the ground, barely off
\* it, just below and exactly at the clearance of a log, and at maxHeight
WorldJumpHeights ==
  {0, 1, 8 * 9 * (HScale \div 10) - 1, 8 * 9 * (HScale \div 10),
   maxHeight * HScale}

TileChoices ==
  {Tile("empty"), Tile("grass"), Tile("water"), Tile("log"), Tile("rock"),
   TileWithHeight("log", 20)}

\* tile coordinates used by edits: every cell and one ring around the map
EditCoords == (-1..MapWidth) \X (-1..MapHeight)

\* world positions queried: one inside every tile column and row of the
\* map and of the ring around it
QueryPoints ==
  {<<tx * TileSize + o, ty * TileSize + o>> :
     tx \in -1..MapWidth, ty \in -1..MapHeight, o \in {0, TileSize - 1}}

InitWorld ==
  /\ physics \in {[height |-> h, velocity |-> 0] : h \in WorldJumpHeights}
  /\ js = JumpState_new
  /\ hist = HistInit
  /\ scn = ScnIdle
  /\ la = LaIdle
  /\ world = [loaded |-> FALSE, tm |-> BaseMap]
  /\ qry = QryIdle

\* World.start(): the map becomes the world's tileMapData
WorldStart ==
  /\ ~qry.asked
  /\ ~world.loaded
  /\ world' = [world EXCEPT !.loaded = TRUE]
  /\ UNCHANGED <<physics, js, hist, scn, la, qry>>

SetTile ==
  /\ ~qry.asked
  /\ hist.n < MaxEdits
  /\ \E i \in 1..Len(world.tm.layers), c \in EditCoords, tile \in TileChoices :
       world' = [world EXCEPT !.tm.layers[i] =
                   TileLayer_setTile(@, c[1], c[2], tile)]
  /\ hist' = [hist EXCEPT !.op = "setTile", !.n = @ + 1]
  /\ UNCHANGED <<physics, js, scn, la, qry>>

SetCollision ==
  /\ ~qry.asked
  /\ hist.n < MaxEdits
  /\ \E c \in EditCoords, blocked \in BOOLEAN :
       world' = [world EXCEPT !.tm =
                   TileMap_setCollision(@, c[1], c[2], blocked)]
  /\ hist' = [hist EXCEPT !.op = "setCollision", !.n = @ + 1]
  /\ UNCHANGED <<physics, js, scn, la, qry>>

SyncCollisionFromTiles ==
  /\ ~qry.asked
  /\ hist.n < MaxEdits
  /\ world' = [world EXCEPT !.tm = TileMap_syncCollisionFromTiles(@)]
  /\ hist' = [hist EXCEPT !.op = "syncCollisionFromTiles", !.n = @ + 1,
                          !.gridBefore = world.tm.collisionGrid]
  /\ UNCHANGED <<physics, js, scn, la, qry>>

\* World.isBlocked(worldX, worldY) is called
IsBlockedQuery ==
  /\ ~qry.asked
  /\ \E pt \in QueryPoints :
       qry' = [asked |-> TRUE, x |-> pt[1], y |-> pt[2],
               result |-> World_isBlocked(world, physics, pt[1], pt[2])]
  /\ UNCHANGED <<physics, js, hist, scn, la, world>>

NextWorld ==
  WorldStart \/ SetTile \/ SetCollision \/ SyncCollisionFromTiles
    \/ IsBlockedQuery

SpecWorld == InitWorld /\ [][NextWorld]_vars

(***************************************************************************)
(* The tick loop of a jumping entity in a loaded world (SpecJumpWorld):    *)
(* the map holds water at tile (0,0) and a log at tile (1,0) on its        *)
(* objects layer, and its collision grid is synchronised from the tiles    *)
(***************************************************************************)
JumpWorldMap ==
  LET withWater == [BaseMap EXCEPT !.layers[2] =
                      TileLayer_setTile(@, 0, 0, Tile("water"))]
      withLog == [withWater EXCEPT !.layers[2] =
                    TileLayer_setTile(@, 1, 0, Tile("log"))]
  IN TileMap_syncCollisionFromTiles(withLog)

InitJumpWorld ==
  /\ physics = JumpPhysics_new
  /\ js = JumpState_new
  /\ hist = HistInit
  /\ scn = ScnIdle
  /\ la = LaIdle
  /\ world = [loaded |-> TRUE, tm |-> JumpWorldMap]
  /\ qry = QryIdle

JumpWorldTicks == {16, MaxTickMs}

JumpWorldTick ==
  \E dtMs \in JumpWorldTicks, held \in BOOLEAN : Tick(dtMs, held)

NextJumpWorld == JumpInitiate \/ BufferPress \/ JumpWorldTick

SpecJumpWorld == InitJumpWorld /\ [][NextJumpWorld]_vars

(***************************************************************************)
(* Coordinate conversion (SpecCoords): a map of some tile edge length      *)
(* converts a tile coordinate to the world and back                        *)
(***************************************************************************)
InitCoords ==
  /\ physics = JumpPhysics_new
  /\ js = JumpState_new
  /\ hist = HistInit
  /\ scn = ScnIdle
  /\ la = LaIdle
  /\ world \in {[loaded |-> FALSE, tm |-> TileMap_new(MapWidth, MapHeight, e)] :
                  e \in 1..MaxEdgePx}
  /\ qry = QryIdle

\* worldToTile(tileToWorld(tx, ty)); qry keeps the tile asked and the answer
TileRoundTrip ==
  /\ ~qry.asked
  /\ \E c \in EditCoords :
       LET w == TileMap_tileToWorld(world.tm, c[1], c[2])
       IN qry' = [asked |-> TRUE, x |-> c[1], y |-> c[2],
                  result |-> TileMap_worldToTileHalfPx(world.tm, w.x2, w.y2)]
  /\ UNCHANGED <<physics, js, hist, scn, la, world>>

NextCoords == TileRoundTrip

SpecCoords == InitCoords /\ [][NextCoords]_vars

(***************************************************************************)
(* Layers of a map (SpecLayers): layers are added to an empty map, under   *)
(* new names or names already used, with equal or different zIndex; then   *)
(* getLayer or getTileAt is called once.  qry keeps the call and its       *)
(* result.                                                                 *)
(***************************************************************************)
LayerNames == {"ground", "objects", "walls"}

LayerZIndexes == {0, 5}

\* contents of an added layer: empty, filled with grass, or a rock at (0,0)
\* and a log at (1,1)
LayerContents(name, zIndex) ==
  LET empty == TileLayer_new(name, MapWidth, MapHeight, zIndex)
  IN {empty,
      TileLayer_fill(empty, Tile("grass")),
      TileLayer_setTile(TileLayer_setTile(empty, 0, 0, Tile("rock")),
                        1, 1, Tile("log"))}

InitLayers ==
  /\ physics = JumpPhysics_new
  /\ js = JumpState_new
  /\ hist = HistInit
  /\ scn = ScnIdle
  /\ la = LaIdle
  /\ world = [loaded |-> FALSE,
              tm |-> TileMap_new(MapWidth, MapHeight, TileSize)]
  /\ qry = [asked |-> FALSE, op |-> "none", name |-> "", x |-> 0, y |-> 0,
            result |-> FALSE]

AddLayer ==
  /\ ~qry.asked
  /\ hist.n < MaxLayerAdds
  /\ \E name \in LayerNames, zIndex \in LayerZIndexes :
       \E layer \in LayerContents(name, zIndex) :
         world' = [world EXCEPT !.tm = TileMap_addLayer(@, layer)]
  /\ hist' = [hist EXCEPT !.op = "addLayer", !.n = @ + 1]
  /\ UNCHANGED <<physics, js, scn, la, qry>>

GetLayer ==
  /\ ~qry.asked
  /\ \E name \in LayerNames :
       qry' = [qry EXCEPT !.asked = TRUE, !.op = "getLayer", !.name = name,
                          !.result = TileMap_getLayer(world.tm, name)]
  /\ UNCHANGED <<physics, js, hist, scn, la, world>>

GetTileAt ==
  /\ ~qry.asked
  /\ \E c \in EditCoords :
       qry' = [qry EXCEPT !.asked = TRUE, !.op = "getTileAt",
                          !.x = c[1], !.y = c[2],
                          !.result = TileMap_getTileAt(world.tm, c[1], c[2])]
  /\ UNCHANGED <<physics, js, hist, scn, la, world>>

NextLayers == AddLayer \/ GetLayer \/ GetTileAt

SpecLayers == InitLayers /\ [][NextLayers]_vars

(***************************************************************************)
(* Conversion of a Tiled document (SpecTiled): the document of the         *)
(* converter's test (2x2 tiles of 16 px; tileset "terrain" with water and  *)
(* a colliding path; layers ground, obstacles with z-index 5, collision)   *)
(* and the options { defaultTileId: "grass" } are changed in up to         *)
(* MaxDocEdits places, then fromJSON is called.  qry keeps the document,   *)
(* the options and the outcome; world.tm is the map returned.              *)
(***************************************************************************)
TilesetTile(id, tileId, collides) ==
  [id |-> id, hasProperties |-> TRUE, hasTileId |-> TRUE, tileId |-> tileId,
   collides |-> collides]

DocLayer(name, kindProperty, hasZ, z, data) ==
  [name |-> name, type |-> "tilelayer", visible |-> TRUE,
   kindProperty |-> kindProperty, hasZIndexProperty |-> hasZ,
   zIndexProperty |-> z, width |-> MapWidth, height |-> MapHeight,
   data |-> data]

createBaseMap ==
  [width |-> MapWidth, height |-> MapHeight,
   tilewidth |-> TileSize, tileheight |-> TileSize,
   tilesets |-> <<[name |-> "terrain", firstgid |-> 1, hasSource |-> FALSE,
                   tiles |-> <<TilesetTile(0, "water", FALSE),
                               TilesetTile(1, "path", TRUE)>>]>>,
   layers |-> <<DocLayer("ground", "tile", FALSE, 0,
                         <<Gid(1), Gid(0), Gid(0), Gid(0)>>),
                DocLayer("obstacles", "tile", TRUE, 5,
                         <<Gid(0), Gid(0), Gid(0), Gid(2)>>),
                DocLayer("collision", "collision", FALSE, 0,
                         <<Gid(2), Gid(0), Gid(0), Gid(0)>>)>>]

DocLayerNames == {"ground", "obstacles", "collision"}

BaseOptions ==
  [defaultTileId |-> "grass",
   layerOverrides |-> [name \in DocLayerNames |-> NoOverride]]

\* cell values written by an edit: empty, water, path, an index without
\* tileset tile, and flipped water, path and empty
GidChoices ==
  {Gid(0), Gid(1), Gid(2), Gid(3),
   [Gid(1) EXCEPT !.flipH = TRUE], [Gid(2) EXCEPT !.flipD = TRUE],
   [Gid(0) EXCEPT !.flipH = TRUE], [Gid(0) EXCEPT !.flipV = TRUE]}

\* the cells written by an edit: the first and the last of a layer
EditedCells == {1, MapWidth * MapHeight}

KindProperties == {"", "tile", "collision", "ignore", "decoration"}

\* declared width and height of a layer with MapWidth * MapHeight cells
LayerShapes ==
  {<<MapWidth, MapHeight>>, <<1, MapWidth * MapHeight>>,
   <<MapWidth + 1, MapHeight>>}

InitTiled ==
  /\ physics = JumpPhysics_new
  /\ js = JumpState_new
  /\ hist = HistInit
  /\ scn = ScnIdle
  /\ la = LaIdle
  /\ world = WorldIdle
  /\ qry = [asked |-> FALSE, doc |-> createBaseMap, opts |-> BaseOptions,
            result |-> Threw("")]

Edited(q) ==
  /\ ~qry.asked
  /\ hist.n < MaxDocEdits
  /\ qry' = q
  /\ hist' = [hist EXCEPT !.op = "edit", !.n = @ + 1]
  /\ UNCHANGED <<physics, js, scn, la, world>>

EditCell ==
  \E i \in 1..Len(qry.doc.layers), k \in EditedCells, g \in GidChoices :
    Edited([qry EXCEPT !.doc.layers[i].data[k] = g])

EditLayer ==
  \E i \in 1..Len(qry.doc.layers) :
    \/ Edited([qry EXCEPT !.doc.layers[i].visible = FALSE])
    \/ Edited([qry EXCEPT !.doc.layers[i].type = "objectgroup"])
    \/ \E kind \in KindProperties :
         Edited([qry EXCEPT !.doc.layers[i].kindProperty = kind])
    \/ \E shape \in LayerShapes :
         Edited([qry EXCEPT !.doc.layers[i].width = shape[1],
                            !.doc.layers[i].height = shape[2]])
    \/ \E hasZ \in BOOLEAN :
         Edited([qry EXCEPT !.doc.layers[i].hasZIndexProperty = hasZ,
                            !.doc.layers[i].zIndexProperty = 1])

EditTileset ==
  \/ Edited([qry EXCEPT !.doc.tilesets[1].hasSource = TRUE])
  \/ \E t \in 1..Len(qry.doc.tilesets[1].tiles) :
       \/ Edited([qry EXCEPT !.doc.tilesets[1].tiles[t].hasProperties = FALSE])
       \/ Edited([qry EXCEPT !.doc.tilesets[1].tiles[t].hasTileId = FALSE])

EditTileSize ==
  Edited([qry EXCEPT !.doc.tileheight = 2 * TileSize])

\* z-indexes given by an override: 0 (kept by ??) and one above the others
OverrideZIndexes == {0, 7}

EditOverride ==
  \E name \in DocLayerNames :
    \/ \E kind \in {"tile", "collision", "ignore"} :
         Edited([qry EXCEPT !.opts.layerOverrides[name].hasKind = TRUE,
                            !.opts.layerOverrides[name].kind = kind])
    \/ \E b \in BOOLEAN :
         Edited([qry EXCEPT !.opts.layerOverrides[name].hasCollides = TRUE,
                            !.opts.layerOverrides[name].collides = b])
    \/ \E z \in OverrideZIndexes :
         Edited([qry EXCEPT !.opts.layerOverrides[name].hasZIndex = TRUE,
                            !.opts.layerOverrides[name].zIndex = z])

\* TiledConverter.fromJSON(doc, opts)
FromJSON ==
  /\ ~qry.asked
  /\ LET r == fromTiled(qry.doc, qry.opts)
     IN /\ qry' = [qry EXCEPT !.asked = TRUE,
                              !.result = IF r.ok THEN Ok(<<>>) ELSE r]
        /\ world' = IF r.ok THEN [loaded |-> FALSE, tm |-> r.value]
                            ELSE world
  /\ UNCHANGED <<physics, js, hist, scn, la>>

NextTiled ==
  EditCell \/ EditLayer \/ EditTileset \/ EditTileSize \/ EditOverride
    \/ FromJSON

SpecTiled == InitTiled /\ [][NextTiled]_vars

(***************************************************************************)
(* Variant selection (SpecVariants): the table of TileVariants as shipped, *)
(* at most one registerVariant call, then selectVariant for a kind and a   *)
(* tile position.  qry keeps the table, the question and the answer.       *)
(***************************************************************************)
VariantStrategies == {"static", "checkerboard", "random", "noise"}

\* kinds registered and asked for; "path" is not in the table
RegisteredKinds == {"grass", "rock"}
AskedKinds == {"grass", "rock", "path"}

\* noiseScale of a registered configuration: absent (2.0 is used) or 4
VariantConfigs ==
  {[count |-> c, strategy |-> s, hasNoiseScale |-> b,
    noiseScale |-> IF b THEN 4 ELSE 0] :
     c \in 1..MaxVariantCount, s \in VariantStrategies, b \in BOOLEAN}

VariantCoords == {-3, 0, 1, 5, 10}

InitVariants ==
  /\ physics = JumpPhysics_new
  /\ js = JumpState_new
  /\ hist = HistInit
  /\ scn = ScnIdle
  /\ la = LaIdle
  /\ world = WorldIdle
  /\ qry = [configs |-> TileVariants_configs, asked |-> FALSE,
            tileId |-> "grass", x |-> 0, y |-> 0, result |-> Whole(0)]

RegisterVariant ==
  /\ hist.op = "new"
  /\ \E tileId \in RegisteredKinds, config \in VariantConfigs :
       qry' = [qry EXCEPT !.configs =
                 TileVariants_registerVariant(qry.configs, tileId, config)]
  /\ hist' = [hist EXCEPT !.op = "registerVariant"]
  /\ UNCHANGED <<physics, js, scn, la, world>>

SelectVariant ==
  /\ \E tileId \in AskedKinds, x \in VariantCoords, y \in VariantCoords :
       qry' = [qry EXCEPT
                 !.asked = TRUE, !.tileId = tileId, !.x = x, !.y = y,
                 !.result = TileVariants_selectVariant(qry.configs, tileId,
                                                       x, y)]
  /\ hist' = [hist EXCEPT !.op = "selectVariant"]
  /\ UNCHANGED <<physics, js, scn, la, world>>

NextVariants == RegisterVariant \/ SelectVariant

SpecVariants == InitVariants /\ [][NextVariants]_vars

(***************************************************************************)
(* The chunked renderer (SpecRenderer): a renderer built over a map of     *)
(* 17 x 17 tiles with a ground layer of that size (2 x 2 chunks) and an    *)
(* objects layer of 3 x 3 tiles (one chunk), with a texture for every      *)
(* kind but tree; then any sequence of updateCulling, markTileDirty,       *)
(* rebuildLayer, rebuildAll and up to MaxTileEdits calls of setTile on a   *)
(* layer.  world.tm is the map; qry keeps the renderer (r) and the          *)
(* arguments of the last operation.                                        *)
(***************************************************************************)
RendererMapSize == CHUNK_SIZE + 1

RECURSIVE SetTiles(_, _, _)
SetTiles(layer, cells, tile) ==
  IF cells = {} THEN layer
  ELSE LET c == CHOOSE d \in cells : TRUE
       IN SetTiles(TileLayer_setTile(layer, c[1], c[2], tile),
                   cells \ {c}, tile)

RendererMap ==
  AddLayers(
    TileMap_new(RendererMapSize, RendererMapSize, TileSize),
    <<SetTiles(TileLayer_new("ground", RendererMapSize, RendererMapSize, 0),
               {<<0, 0>>, <<1, 0>>, <<CHUNK_SIZE, 0>>, <<0, CHUNK_SIZE>>,
                <<CHUNK_SIZE, CHUNK_SIZE>>},
               Tile("grass")),
      SetTiles(TileLayer_new("objects", 3, 3, 5),
               {<<0, 0>>, <<1, 1>>}, Tile("rock"))>>)

RendererTextures == {"grass", "water", "log", "rock"}

\* camera rectangles in pixels, a chunk being 256 px wide: over the first
\* chunk (all chunks in range), right of the map (chunk column 1 in
\* range), far from the map (no chunk in range), left of and below the map
\* (chunk (0, 1) in range)
CameraRects ==
  {[left |-> 0, right |-> 100, top |-> 0, bottom |-> 100],
   [left |-> 512, right |-> 600, top |-> 0, bottom |-> 100],
   [left |-> 768, right |-> 800, top |-> 768, bottom |-> 800],
   [left |-> -300, right |-> -290, top |-> 512, bottom |-> 600]}

\* "walls" is not a layer of the map
RendererLayerNames == {"ground", "objects", "walls"}

\* the tiles markTileDirty is called for: in chunks (0, 0) and (1, 1) of
\* ground, left of the map, in and right of the chunk of objects, and in a
\* layer the renderer does not know
DirtyTiles ==
  {<<"ground", 0, 0>>, <<"ground", CHUNK_SIZE, CHUNK_SIZE>>,
   <<"ground", -1, 0>>, <<"objects", 0, 0>>, <<"objects", CHUNK_SIZE, 0>>,
   <<"walls", 0, 0>>}

\* the tiles setTile writes
TileEdits ==
  {<<<<"ground", 0, 0>>, Tile("tree")>>, <<<<"ground", 0, 0>>, Tile("empty")>>,
   <<<<"objects", 0, 0>>, Tile("tree")>>}

NoArgs ==
  [name |-> "", tx |-> 0, ty |-> 0,
   bounds |-> [left |-> 0, right |-> 0, top |-> 0, bottom |-> 0]]

InitRenderer ==
  /\ physics = JumpPhysics_new
  /\ js = JumpState_new
  /\ hist = HistInit
  /\ scn = ScnIdle
  /\ la = LaIdle
  /\ world = [loaded |-> TRUE, tm |-> RendererMap]
  /\ qry = [r |-> TileMapRenderer_new(RendererMap, RendererTextures),
            args |-> NoArgs]

\* the renderer at the start of an operation: nothing rendered or warned yet
Entering == [qry.r EXCEPT !.rendered = {}, !.warned = {}]

Rendered(name, r, args) ==
  /\ qry' = [r |-> r, args |-> args]
  /\ hist' = [hist EXCEPT !.op = name]
  /\ UNCHANGED <<physics, js, scn, la, world>>

UpdateCulling ==
  \E bounds \in CameraRects :
    Rendered("updateCulling",
             TileMapRenderer_updateCulling(Entering, world.tm, bounds),
             [NoArgs EXCEPT !.bounds = bounds])

MarkTileDirty ==
  \E t \in DirtyTiles :
    Rendered("markTileDirty",
             TileMapRenderer_markTileDirty(Entering, world.tm,
                                           t[1], t[2], t[3]),
             [NoArgs EXCEPT !.name = t[1], !.tx = t[2], !.ty = t[3]])

RebuildLayer ==
  \E name \in RendererLayerNames :
    Rendered("rebuildLayer",
             TileMapRenderer_rebuildLayer(Entering, world.tm, name),
             [NoArgs EXCEPT !.name = name])

RebuildAll ==
  Rendered("rebuildAll", TileMapRenderer_rebuildAll(Entering, world.tm),
           NoArgs)

\* layer.setTile(x, y, tile) on a layer of the map, by the game
EditTile ==
  /\ hist.n < MaxTileEdits
  /\ \E e \in TileEdits :
       LET layer == LayerNamed(world.tm, e[1][1])
       IN world' = [world EXCEPT !.tm =
            TileMap_addLayer(world.tm,
              TileLayer_setTile(layer, e[1][2], e[1][3], e[2]))]
  /\ hist' = [hist EXCEPT !.op = "setTile", !.n = @ + 1]
  /\ UNCHANGED <<physics, js, scn, la, qry>>

NextRenderer ==
  UpdateCulling \/ MarkTileDirty \/ RebuildLayer \/ RebuildAll \/ EditTile

SpecRenderer == InitRenderer /\ [][NextRenderer]_vars

(***************************************************************************)
(* The moving entity in a tile world (SpecPlayer): a player with the       *)
(* options World gives it stands on a map of 3 x 4 tiles with water in the *)
(* right column (but for one gap) and a log in the bottom row, at some     *)
(* jump height, and is updated with the keys read and a tick of one or two *)
(* frames                                                                  *)
(***************************************************************************)
PlayerMap ==
  TileMap_syncCollisionFromTiles(
    TileMap_addLayer(
      TileMap_addLayer(
        TileMap_new(3, 4, TileSize),
        TileLayer_fill(
          TileLayer_new("ground", 3, 4, 0),
          Tile("grass"))),
      SetTiles(
        SetTiles(TileLayer_new("objects", 3, 4, 5),
                 {<<2, 0>>, <<2, 2>>, <<2, 3>>}, Tile("water")),
        {<<1, 3>>}, Tile("log"))))

\* positions given to setPosition after construction: in the corner of
\* water and log, beside the gap in the water, at the left edge, and in the
\* top left corner of the map
PlayerStarts == {<<26, 36>>, <<26, 14>>, <<6, 20>>, <<6, 0>>}

\* jump heights in micro-pixels: on the ground, and at the clearance of a log
PlayerJumpHeights == {0, 8 * 9 * (HScale \div 10)}

\* start and jump height together: the height matters only where the log
\* is within reach, beside the corner of water and log
PlayerSetups ==
  {su \in PlayerStarts \X PlayerJumpHeights :
     su[2] = 0 \/ su[1] = <<26, 36>>}

\* the state of the four direction keys (each of KeyW/ArrowUp, ...)
Keys == [up : BOOLEAN, down : BOOLEAN, left : BOOLEAN, right : BOOLEAN]

\* ticker delta of one update, in frames (60 per second)
TickFrames == {1, 2}

NoTick ==
  [ran |-> FALSE, x |-> 0, y |-> 0, vx |-> 0, vy |-> 0, newX |-> 0,
   newY |-> 0, finalX |-> 0, finalY |-> 0, clamped |-> FALSE, calls |-> 0]

InitPlayer ==
  /\ js = JumpState_new
  /\ hist = HistInit
  /\ scn = ScnIdle
  /\ la = LaIdle
  /\ world = [loaded |-> TRUE, tm |-> PlayerMap]
  /\ \E su \in PlayerSetups :
       /\ physics = [height |-> su[2], velocity |-> 0]
       /\ qry = [x |-> su[1][1], y |-> su[1][2], vx |-> 0, vy |-> 0,
                 tick |-> NoTick]

\* World.update(deltaFrames): this.player.update(deltaFrames)
PlayerUpdate ==
  /\ hist.n < MaxPlayerTicks
  /\ \E keys \in Keys, dt \in TickFrames :
       qry' = Player_update(qry, world, physics, PlayerOptions, keys, dt)
  /\ hist' = [hist EXCEPT !.op = "update", !.n = @ + 1]
  /\ UNCHANGED <<physics, js, scn, la, world>>

NextPlayer == PlayerUpdate

SpecPlayer == InitPlayer /\ [][NextPlayer]_vars

(***************************************************************************)
(* A direction held on open ground (SpecProgress): the player World puts   *)
(* in the middle of a map of 8 x 8 grass tiles is updated with the same    *)
(* keys and the same tick length, a fraction of a frame, again and         *)
(* again, until it has travelled MaxTravelPx                               *)
(*   scn.keys  the keys held                                               *)
(*   scn.num   the tick length in 1/FrameParts frames                      *)
(***************************************************************************)
OpenMap ==
  TileMap_syncCollisionFromTiles(
    TileMap_addLayer(
      TileMap_new(8, 8, TileSize),
      TileLayer_fill(TileLayer_new("ground", 8, 8, 0), Tile("grass"))))

\* World: player.setPosition(worldSize.width / 2, worldSize.height / 2)
OpenStart == <<(8 * TileSize) \div 2, (8 * TileSize) \div 2>>

\* keys that hold a direction: the intent is not the zero vector
HeldKeys == {k \in Keys : getActionIntent(k).move # [x |-> 0, y |-> 0]}

\* tick lengths in 1/FrameParts frames: display rates of 360, 120 and 60 Hz
ProgressTicks == {1, 3, FrameParts}

Travelled ==
  LET dx == qry.x - OpenStart[1]
      dy == qry.y - OpenStart[2]
  IN Max(IF dx < 0 THEN -dx ELSE dx, IF dy < 0 THEN -dy ELSE dy)

InitProgress ==
  /\ physics = JumpPhysics_new
  /\ js = JumpState_new
  /\ hist = HistInit
  /\ scn \in {[keys |-> k, num |-> n] : k \in HeldKeys, n \in ProgressTicks}
  /\ la = LaIdle
  /\ world = [loaded |-> TRUE, tm |-> OpenMap]
  /\ qry = [x |-> OpenStart[1], y |-> OpenStart[2], vx |-> 0, vy |-> 0,
            tick |-> NoTick]

\* the ticker calls World.update(deltaFrames) once per displayed frame
ProgressTick ==
  /\ Travelled < MaxTravelPx
  /\ qry' = Player_updateFor(qry, world, physics, PlayerOptions, scn.keys,
                             scn.num, FrameParts)
  /\ UNCHANGED <<physics, js, hist, scn, la, world>>

NextProgress == ProgressTick

SpecProgress == InitProgress /\ [][NextProgress]_vars /\ WF_vars(ProgressTick)

(***************************************************************************)
(* TileMapLoader and TileMapData                                           *)
(*                                                                         *)
(* A cell of a layer's data is a number, a tile-id string or null:         *)
(* [t, n, s] with t the type.  A row is a sequence of cells, data a        *)
(* sequence of rows (data[y][x] of the source is data[y + 1][x + 1]).      *)
(***************************************************************************)
NullCell == [t |-> "null", n |-> 0, s |-> ""]
NumberCell(n) == [t |-> "number", n |-> n, s |-> ""]
StringCell(str) == [t |-> "string", n |-> 0, s |-> str]
UndefinedCell == [t |-> "undefined", n |-> 0, s |-> ""]

\* TILE_ID_MAP: the tile ids of the numbers 0 .. 5
TILE_ID_MAP == <<"empty", "grass", "water", "log", "rock", "tree">>

\* String(n) of a number used where a tile id is expected
NumberText == <<"1", "2", "3", "4", "5">>

\* numbers.map((n) => TILE_ID_MAP[n] ?? null): only a number of the table
\* is a key of it
numberArrayToTileIds(numbers) ==
  [i \in 1..Len(numbers) |->
     IF numbers[i].t = "number" /\ numbers[i].n \in 0..(Len(TILE_ID_MAP) - 1)
       THEN StringCell(TILE_ID_MAP[numbers[i].n + 1])
       ELSE NullCell]

numberArray2DToTileIds(numbers) ==
  [y \in 1..Len(numbers) |-> numberArrayToTileIds(numbers[y])]

\* data[y]?.[x]
CellAt(data, x, y) ==
  IF y + 1 \in 1..Len(data) /\ x + 1 \in 1..Len(data[y + 1])
    THEN data[y + 1][x + 1]
    ELSE UndefinedCell

\* tileId && tileId !== "empty"
NamesTile(cell) ==
  \/ cell.t = "string" /\ cell.s # "" /\ cell.s # "empty"
  \/ cell.t = "number" /\ cell.n # 0

\* TileMapLoader.parseLayer
parseLayer(layerData) ==
  LET first == CellAt(layerData.data, 0, 0)
      tileData == IF first.t = "number" \/ first.t = "null"
                    THEN numberArray2DToTileIds(layerData.data)
                    ELSE layerData.data
      layer == TileLayer_new(layerData.name, layerData.width,
                             layerData.height, layerData.zIndex)
  IN [layer EXCEPT !.tiles =
        [c \in DOMAIN layer.tiles |->
           LET tileId == CellAt(tileData, c[1], c[2])
           IN IF NamesTile(tileId)
                THEN Tile(IF tileId.t = "string" THEN tileId.s
                          ELSE NumberText[tileId.n])
                ELSE layer.tiles[c]]]

\* TileMapLoader.parseMapData
parseMapData(data) ==
  TileMap_syncCollisionFromTiles(
    AddLayers(TileMap_new(data.width, data.height, data.tileSize),
              [i \in 1..Len(data.layers) |-> parseLayer(data.layers[i])]))

(***************************************************************************)
(* A map document loaded (SpecLoader): a map of 2 x 1 tiles with a ground  *)
(* and an objects layer, each given either as numbers or as tile-id        *)
(* strings, null standing for an empty cell in both                        *)
(*   scn.data    the document                                              *)
(*   scn.parsed  parseMapData has run; world.tm is its result              *)
(***************************************************************************)
NumberCells == {NullCell} \cup {NumberCell(n) : n \in {0, 1, 2, 3}}
StringCells == {NullCell} \cup {StringCell(id) : id \in {"empty", "grass", "water", "log"}}

LayerDatas ==
  {<< <<a, b>> >> : a \in NumberCells, b \in NumberCells}
    \cup {<< <<a, b>> >> : a \in StringCells, b \in StringCells}

MapDatas ==
  {[width |-> 2, height |-> 1, tileSize |-> TileSize,
    layers |-> << [name |-> "ground", zIndex |-> 0, width |-> 2,
                   height |-> 1, data |-> g],
                  [name |-> "objects", zIndex |-> 5, width |-> 2,
                   height |-> 1, data |-> o] >>] :
     g \in LayerDatas, o \in LayerDatas}

InitLoader ==
  /\ physics = JumpPhysics_new
  /\ js = JumpState_new
  /\ hist = HistInit
  /\ scn \in {[data |-> d, parsed |-> FALSE] : d \in MapDatas}
  /\ la = LaIdle
  /\ world = WorldIdle
  /\ qry = QryIdle

\* TileMapLoader.parseMapData(data)
ParseMapData ==
  /\ ~scn.parsed
  /\ world' = [loaded |-> TRUE, tm |-> parseMapData(scn.data)]
  /\ scn' = [scn EXCEPT !.parsed = TRUE]
  /\ UNCHANGED <<physics, js, hist, la, qry>>

NextLoader == ParseMapData

SpecLoader == InitLoader /\ [][NextLoader]_vars

(***************************************************************************)
(* Claims                                                                  *)
(***************************************************************************)

\* C1 (SpecPhysics): after every JumpPhysics operation (jump, update with
\* any tick length >= 0 and any phase, cancelRise, reset) the height is
\* within 0 .. maxHeight.
C1_HeightInRange ==
  /\ physics.height >= 0
  /\ physics.height <= maxHeight * HScale

\* C1 witness: an airborne update has clamped the height at maxHeight
C1_Witness ==
  /\ hist.op = "physics.update"
  /\ hist.prevPhase \in {Rising, Falling}
  /\ physics.height = maxHeight * HScale

FullCycle == <<Grounded, Rising, Falling, Landing, Grounded>>

CycleChanges ==
  {<<Grounded, Rising>>, <<Rising, Falling>>,
   <<Falling, Landing>>, <<Landing, Grounded>>}

\* C3 (Spec): every change of phase made by the tick loop and by jump
\* initiations is one of Grounded->Rising, Rising->Falling,
\* Falling->Landing, Landing->Grounded.
C3_OnlyCycleChanges ==
  \A i \in 1..Len(hist.changes) : hist.changes[i] \in CycleChanges

\* C4 (SpecState): an update that begins in Landing leaves the phase Landing
\* until the tick time accumulated since landing began reaches the landing
\* duration, and at that update the phase becomes Grounded, whatever height
\* and velocity it is given.
C4_LandingOnlyTimer ==
  (hist.op = "update" /\ hist.prevPhase = Landing) =>
     js.phase = IF hist.landMs >= landingDurationMs THEN Grounded ELSE Landing

\* C4 witness: Landing has ended by its timer in an update given a height > 0
C4_Witness ==
  /\ hist.op = "update"
  /\ hist.prevPhase = Landing
  /\ hist.argH > 0
  /\ js.phase = Grounded

LandingEntered ==
  /\ js.phase = Landing
  /\ js.height = 0
  /\ js.velocity = 0
  /\ js.landingTimer = landingDurationMs

\* C5 as stated (SpecState): an update with height <= 0 in any phase other
\* than Landing enters Landing, zeroes the stored height and velocity and
\* starts the landing timer.
C5_Original ==
  (hist.op = "update" /\ hist.argH <= 0 /\ hist.prevPhase # Landing) =>
     LandingEntered

\* C5 amended (SpecState): an update with height <= 0 while the phase is
\* Rising or Falling enters Landing, zeroes the stored height and velocity
\* and starts the landing timer (while Grounded the phase stays Grounded).
C5_Amended ==
  (hist.op = "update" /\ hist.argH <= 0
     /\ hist.prevPhase \in {Rising, Falling}) => LandingEntered

\* C5 witness: an airborne update given a negative height has entered Landing
C5_Witness ==
  /\ hist.op = "update"
  /\ hist.prevPhase \in {Rising, Falling}
  /\ hist.argH < 0
  /\ js.phase = Landing

\* C6 (Spec): a press buffered while airborne less than jumpBufferMs before
\* touchdown is still live at the update that brings the phase to Grounded.
C6_BufferLiveOnGrounded ==
  (/\ hist.op = "update"
   /\ hist.prevPhase = Landing
   /\ js.phase = Grounded
   /\ hist.lead >= 0
   /\ hist.lead < jumpBufferMs) => hasBufferedJump(js)

\* C7 (SpecLanding): a position returned by assistLanding is not blocked
\* and lies within checkRadius (Euclidean) of the landing point.
C7_AssistedPositionValid ==
  (la.op = "assistLanding" /\ la.result # null) =>
     /\ ~checkCollision(la, la.result[1], la.result[2])
     /\ Dist2(la.result[1], la.result[2], la.x, la.y)
          <= checkRadius * checkRadius

\* C7 witness: assistLanding has returned a position exactly checkRadius away
C7_Witness ==
  /\ la.op = "assistLanding"
  /\ la.result # null
  /\ Dist2(la.result[1], la.result[2], la.x, la.y) = checkRadius * checkRadius

\* the probe candidates in probing order: radius by radius, 8 directions each
RECURSIVE ProbeOrderFrom(_, _, _)
ProbeOrderFrom(x, y, radius) ==
  IF radius > checkRadius THEN <<>>
  ELSE Positions(x, y, radius) \o ProbeOrderFrom(x, y, radius + searchStep)

ProbeOrder(L) == ProbeOrderFrom(L.x, L.y, searchStep)

\* the valid candidate nearest to the landing point, the first probed among
\* equally near ones, if it is within checkRadius; null otherwise
NearestValidCandidate(L) ==
  LET order == ProbeOrder(L)
      d(i) == Dist2(order[i][1], order[i][2], L.x, L.y)
      ok == {i \in 1..Len(order) : ~checkCollision(L, order[i][1], order[i][2])}
      best == {i \in ok : \A j \in ok : d(i) < d(j) \/ (d(i) = d(j) /\ i <= j)}
  IN IF \E i \in best : d(i) <= checkRadius * checkRadius
       THEN LET i == CHOOSE i \in best : TRUE IN order[i]
       ELSE null

QueryOutOfBounds ==
  \/ qry.x < 0 \/ qry.x >= world.tm.width * world.tm.tileSizePx
  \/ qry.y < 0 \/ qry.y >= world.tm.height * world.tm.tileSizePx

\* C9 (SpecWorld): TileMap.isBlocked is true for every tile coordinate
\* outside the map, and World.isBlocked is true for every world position
\* outside the map, whatever the player's jump height.
C9_OutOfBoundsBlocked ==
  /\ \A c \in EditCoords :
       (c[1] < 0 \/ c[1] >= world.tm.width \/ c[2] < 0
          \/ c[2] >= world.tm.height)
         => TileMap_isBlocked(world.tm, c[1], c[2])
  /\ (world.loaded /\ qry.asked /\ QueryOutOfBounds) => qry.result

\* C9 witness: a position left of the map, in a row of the map, was asked
\* by a player at maxHeight and found blocked
C9_Witness ==
  /\ world.loaded
  /\ qry.asked
  /\ qry.x < 0
  /\ qry.y >= 0 /\ qry.y < world.tm.height * world.tm.tileSizePx
  /\ physics.height = maxHeight * HScale
  /\ qry.result

\* the cell of the queried position, for a position inside the map
QueryCell ==
  <<CHOOSE tx \in 0..(world.tm.width - 1) :
      tx * world.tm.tileSizePx <= qry.x
        /\ qry.x < (tx + 1) * world.tm.tileSizePx,
    CHOOSE ty \in 0..(world.tm.height - 1) :
      ty * world.tm.tileSizePx <= qry.y
        /\ qry.y < (ty + 1) * world.tm.tileSizePx>>

\* the layers holding a non-empty tile at cell c, and the top one among
\* them: the highest zIndex, the last added among equal zIndex
NonEmptyAt(c) ==
  {i \in 1..Len(world.tm.layers) : world.tm.layers[i].tiles[c].id # "empty"}

TopLayerAt(c) ==
  CHOOSE i \in NonEmptyAt(c) :
    \A j \in NonEmptyAt(c) :
      \/ world.tm.layers[j].zIndex < world.tm.layers[i].zIndex
      \/ (world.tm.layers[j].zIndex = world.tm.layers[i].zIndex /\ j <= i)

\* the player clears the top tile at cell c: it is off the ground, there is
\* a non-empty tile, and the jump height is at least 0.9 x the obstacle
\* height of the tile's kind
ClearsCell(c) ==
  /\ physics.height > 0
  /\ NonEmptyAt(c) # {}
  /\ physics.height * 10 >=
       9 * TILE_HEIGHTS[world.tm.layers[TopLayerAt(c)].tiles[c].id] * HScale

TopTileAtQuery == world.tm.layers[TopLayerAt(QueryCell)].tiles[QueryCell]

\* C11 (SpecWorld): at a blocked cell whose top tile carries an explicit
\* height, World.isBlocked for an airborne player is decided against that
\* explicit height: it is false exactly when the jump height is at least
\* 0.9 x the explicit height.
C11_ExplicitHeightDecides ==
  (/\ world.loaded /\ qry.asked /\ ~QueryOutOfBounds
   /\ world.tm.collisionGrid[QueryCell[2] * world.tm.width + QueryCell[1]] # 0
   /\ NonEmptyAt(QueryCell) # {}
   /\ physics.height > 0) =>
     (TopTileAtQuery.hasHeight =>
        (qry.result = ~(physics.height * 10 >=
                          9 * TopTileAtQuery.height * HScale)))

\* C12 (SpecJumpWorld): with maxHeight = 24, in every state of the jump the
\* blocked cell whose top tile is water stays blocked for World.isBlocked,
\* and the blocked cell whose top tile is a log is passable only at a jump
\* height of at least 0.9 x 8 px.
C12_WaterNeverCleared ==
  /\ TileMap_getTileAt(world.tm, 0, 0) = Tile("water")
  /\ TileMap_isBlocked(world.tm, 0, 0)
  /\ World_isBlocked(world, physics, 0, 0)
  /\ ~World_isBlocked(world, physics, TileSize, 0) =>
       physics.height * 10 >= 9 * TILE_HEIGHTS["log"] * HScale

\* C12 witness: during a jump the log cell is passable while the water cell
\* is blocked
C12_Witness ==
  /\ world.loaded
  /\ isAirborne(js)
  /\ TileMap_isBlocked(world.tm, 1, 0)
  /\ TileMap_getTileAt(world.tm, 1, 0) = Tile("log")
  /\ ~World_isBlocked(world, physics, TileSize, 0)
  /\ World_isBlocked(world, physics, 0, 0)

\* C13 (SpecCoords): for every tile coordinate of the map and every tile
\* edge length, worldToTile of the tile's centre (tileToWorld) is the tile
\* coordinate again.
C13_TileRoundTrip ==
  (/\ qry.asked
   /\ qry.x >= 0 /\ qry.x < world.tm.width
   /\ qry.y >= 0 /\ qry.y < world.tm.height) =>
     qry.result = [tx |-> qry.x, ty |-> qry.y]

\* C13 witness: the round trip of tile (1,1) on a map of odd tile edge
\* length, whose tile centres lie on half pixels
C13_Witness ==
  /\ qry.asked
  /\ qry.x = 1 /\ qry.y = 1
  /\ world.tm.tileSizePx % 2 = 1
  /\ qry.result = [tx |-> 1, ty |-> 1]

\* the names of the layers of the map
LayerNamesAdded == {world.tm.layers[i].name : i \in 1..Len(world.tm.layers)}

\* C14 (SpecLayers): getLayer with a name that was never added fails with
\* an error instead of returning a value.
C14_UnknownLayerFails ==
  (qry.asked /\ qry.op = "getLayer" /\ qry.name \notin LayerNamesAdded) =>
     qry.result.threw

\* C15 (SpecLayers): after any sequence of addLayer calls, getTileAt of a
\* cell of the map returns the tile of the layer that is last in the order
\* (zIndex ascending, ties in insertion order) among the layers with a
\* non-empty tile at the cell, and null if there is none or the cell is
\* outside the map.
C15_TopTile ==
  (qry.asked /\ qry.op = "getTileAt") =>
     LET c == <<qry.x, qry.y>>
     IN IF c \notin Cells(world.tm.width, world.tm.height)
          THEN qry.result = NoTile
        ELSE IF NonEmptyAt(c) = {} THEN qry.result = NoTile
        ELSE qry.result = world.tm.layers[TopLayerAt(c)].tiles[c]

\* C15 witness: two layers of equal zIndex both hold a tile at (0,0), the
\* first added a rock and the second grass, and getTileAt returned the grass
C15_Witness ==
  /\ qry.asked /\ qry.op = "getTileAt"
  /\ qry.x = 0 /\ qry.y = 0
  /\ Len(world.tm.layers) >= 2
  /\ world.tm.layers[1].zIndex = world.tm.layers[2].zIndex
  /\ world.tm.layers[1].tiles[<<0, 0>>] = Tile("rock")
  /\ world.tm.layers[2].tiles[<<0, 0>>] = Tile("grass")
  /\ \A i \in 1..Len(world.tm.layers) :
       i > 2 => world.tm.layers[i].zIndex < world.tm.layers[2].zIndex
  /\ qry.result = Tile("grass")

\* C16 (SpecWorld): right after syncCollisionFromTiles, a cell of the map
\* is blocked exactly if it has a top-most non-empty tile whose kind blocks
\* movement, whatever the collision grid held before, and a second
\* syncCollisionFromTiles in a row changes nothing.
C16_SyncFromTiles ==
  (hist.op = "syncCollisionFromTiles") =>
     /\ \A c \in Cells(world.tm.width, world.tm.height) :
          TileMap_isBlocked(world.tm, c[1], c[2]) <=>
            (/\ NonEmptyAt(c) # {}
             /\ world.tm.layers[TopLayerAt(c)].tiles[c].id
                  \in {"water", "log", "tree"})
     /\ TileMap_syncCollisionFromTiles(world.tm) = world.tm

\* C16 witness: a cell that setCollision had blocked, with grass on top, is
\* free after the sync
C16_Witness ==
  /\ hist.op = "syncCollisionFromTiles"
  /\ hist.gridBefore[0] = 1
  /\ TileMap_getTileAt(world.tm, 0, 0) = Tile("grass")
  /\ ~TileMap_isBlocked(world.tm, 0, 0)

\* the kind a layer of the document is given: by override, else by its
\* property, else tile
KindGiven(layer) ==
  IF qry.opts.layerOverrides[layer.name].hasKind
    THEN qry.opts.layerOverrides[layer.name].kind
  ELSE IF layer.kindProperty = "" THEN "tile"
  ELSE layer.kindProperty

\* the layers of the document that are converted: visible tile layers
\* whose kind is not ignore
ConvertedLayers ==
  {i \in 1..Len(qry.doc.layers) :
     /\ qry.doc.layers[i].type = "tilelayer"
     /\ qry.doc.layers[i].visible
     /\ KindGiven(qry.doc.layers[i]) # "ignore"}

\* C17 (SpecTiled): fromJSON fails whenever a cell of a converted layer
\* holds a value with one of the three flip/rotation bits set.
C17_FlippedRejected ==
  (/\ qry.asked
   /\ \E i \in ConvertedLayers :
        \E k \in 1..Len(qry.doc.layers[i].data) :
          HasFlippedBits(qry.doc.layers[i].data[k])) => ~qry.result.ok

\* some tileset tile of the document supplies the tile-kind property for
\* global tile index gid
KindSupplied(gid) ==
  \E k \in 1..Len(qry.doc.tilesets) :
    \E t \in 1..Len(qry.doc.tilesets[k].tiles) :
      /\ qry.doc.tilesets[k].firstgid + qry.doc.tilesets[k].tiles[t].id = gid
      /\ qry.doc.tilesets[k].tiles[t].hasProperties
      /\ qry.doc.tilesets[k].tiles[t].hasTileId

\* the layer of the document a layer of the converted map was made from
DocLayerOf(layer) ==
  qry.doc.layers[CHOOSE i \in 1..Len(qry.doc.layers) :
                   qry.doc.layers[i].name = layer.name]

\* the cell of a layer's data that holds tile c of the map
CellIndex(c) == c[2] * qry.doc.width + c[1] + 1

\* C18 (SpecTiled): fromJSON fails whenever a converted layer holds a
\* non-zero global tile index for which no tileset tile supplies the
\* tile-kind property; and in a converted map a tile is of the default kind
\* exactly where the cell's global tile index is 0.
C18_UnmappedIndexRejected ==
  qry.asked =>
    /\ (\E i \in ConvertedLayers :
          \E k \in 1..Len(qry.doc.layers[i].data) :
            /\ BaseGid(qry.doc.layers[i].data[k]) # 0
            /\ ~KindSupplied(BaseGid(qry.doc.layers[i].data[k])))
         => (~qry.result.ok /\ qry.result.error # "")
    /\ qry.result.ok =>
         \A j \in 1..Len(world.tm.layers) :
           \A c \in Cells(world.tm.width, world.tm.height) :
             (world.tm.layers[j].tiles[c].id = qry.opts.defaultTileId) <=>
               (BaseGid(DocLayerOf(world.tm.layers[j]).data[CellIndex(c)]) = 0)

\* C18 witness: the conversion failed for want of metadata on index 3,
\* which no tile of the tileset has
C18_Witness ==
  /\ qry.asked
  /\ ~qry.result.ok
  /\ qry.result.error = "NoMetadata"
  /\ \E i \in ConvertedLayers :
       \E k \in 1..Len(qry.doc.layers[i].data) :
         qry.doc.layers[i].data[k] = Gid(3)

\* the conversion failed with an error and no map was constructed
FailedWithoutMap ==
  /\ ~qry.result.ok
  /\ qry.result.error # ""
  /\ world = WorldIdle

NonSquareOrExternal ==
  \/ qry.doc.tilewidth # qry.doc.tileheight
  \/ \E k \in 1..Len(qry.doc.tilesets) : qry.doc.tilesets[k].hasSource

\* C19 as stated (SpecTiled): fromJSON fails and constructs no map
\* whenever the tiles are not square, a tileset has an external source, or
\* any tile layer of the document declares a width other than the map's.
C19_Original ==
  (/\ qry.asked
   /\ \/ NonSquareOrExternal
      \/ \E i \in 1..Len(qry.doc.layers) :
           /\ qry.doc.layers[i].type = "tilelayer"
           /\ qry.doc.layers[i].width # qry.doc.width) => FailedWithoutMap

\* C19 amended (SpecTiled): fromJSON fails and constructs no map whenever
\* the tiles are not square, a tileset has an external source, or a
\* converted tile layer (visible, kind not ignore) declares a width other
\* than the map's.
C19_Amended ==
  (/\ qry.asked
   /\ \/ NonSquareOrExternal
      \/ \E i \in ConvertedLayers :
           qry.doc.layers[i].width # qry.doc.width) => FailedWithoutMap

\* C19 witness: the conversion failed on the width of a layer whose cell
\* count is right
C19_Witness ==
  /\ qry.asked
  /\ ~NonSquareOrExternal
  /\ \E i \in ConvertedLayers :
       /\ qry.doc.layers[i].width # qry.doc.width
       /\ Len(qry.doc.layers[i].data)
            = qry.doc.layers[i].width * qry.doc.layers[i].height
  /\ qry.result.error = "LayerWidth"
  /\ world = WorldIdle

\* the global tile index that layer i of the document holds at tile c
GidAt(i, c) == BaseGid(qry.doc.layers[i].data[CellIndex(c)])

\* the tileset tile of global tile index gid is marked as colliding
TileCollides(gid) ==
  \E k \in 1..Len(qry.doc.tilesets) :
    \E t \in 1..Len(qry.doc.tilesets[k].tiles) :
      /\ qry.doc.tilesets[k].firstgid + qry.doc.tilesets[k].tiles[t].id = gid
      /\ qry.doc.tilesets[k].tiles[t].hasProperties
      /\ qry.doc.tilesets[k].tiles[t].collides

\* the z-index given to layer i of the document
ZIndexGiven(i) ==
  IF qry.opts.layerOverrides[qry.doc.layers[i].name].hasZIndex
    THEN qry.opts.layerOverrides[qry.doc.layers[i].name].zIndex
  ELSE IF qry.doc.layers[i].hasZIndexProperty
    THEN qry.doc.layers[i].zIndexProperty
  ELSE i - 1

\* the converted layers of kind tile that hold a tile at c, and the top one
TileLayersAt(c) ==
  {i \in ConvertedLayers :
     KindGiven(qry.doc.layers[i]) = "tile" /\ GidAt(i, c) # 0}

TopTileLayerAt(c) ==
  CHOOSE i \in TileLayersAt(c) :
    \A j \in TileLayersAt(c) :
      ZIndexGiven(j) < ZIndexGiven(i) \/ (ZIndexGiven(j) = ZIndexGiven(i) /\ j <= i)

\* C20 as stated (SpecTiled): in a converted map a cell is blocked exactly
\* if some collision-kind layer holds a non-zero index at it or the top
\* tile at it is of a colliding kind.
C20_Original ==
  (qry.asked /\ qry.result.ok) =>
     \A c \in Cells(world.tm.width, world.tm.height) :
       TileMap_isBlocked(world.tm, c[1], c[2]) <=>
         \/ \E i \in ConvertedLayers :
              KindGiven(qry.doc.layers[i]) = "collision" /\ GidAt(i, c) # 0
         \/ /\ TileLayersAt(c) # {}
            /\ TileCollides(GidAt(TopTileLayerAt(c), c))

\* layer i marks its non-empty cells: by the collides override if one is
\* given, else if its kind is collision
LayerMarks(i) ==
  IF qry.opts.layerOverrides[qry.doc.layers[i].name].hasCollides
    THEN qry.opts.layerOverrides[qry.doc.layers[i].name].collides
    ELSE KindGiven(qry.doc.layers[i]) = "collision"

\* C20 amended (SpecTiled): in a converted map a cell is blocked exactly if
\* some converted layer holds a non-zero index at it and either that layer
\* marks its cells or the index's tileset tile is marked as colliding,
\* whether or not that tile is the top one.
C20_Amended ==
  (qry.asked /\ qry.result.ok) =>
     \A c \in Cells(world.tm.width, world.tm.height) :
       TileMap_isBlocked(world.tm, c[1], c[2]) <=>
         \E i \in ConvertedLayers :
           /\ GidAt(i, c) # 0
           /\ (LayerMarks(i) \/ TileCollides(GidAt(i, c)))

\* C20 witness: tile (1,1) holds a colliding tile under a top tile that does
\* not collide, no layer marks it, and it is blocked
C20_Witness ==
  /\ qry.asked /\ qry.result.ok
  /\ TileLayersAt(<<1, 1>>) # {}
  /\ ~TileCollides(GidAt(TopTileLayerAt(<<1, 1>>), <<1, 1>>))
  /\ \E i \in TileLayersAt(<<1, 1>>) : TileCollides(GidAt(i, <<1, 1>>))
  /\ \A i \in ConvertedLayers : GidAt(i, <<1, 1>>) # 0 => ~LayerMarks(i)
  /\ TileMap_isBlocked(world.tm, 1, 1)

\* the position (from 1) in the document of the layer a layer of the
\* converted map was made from
DocIndexOf(layer) ==
  CHOOSE i \in 1..Len(qry.doc.layers) : qry.doc.layers[i].name = layer.name

\* C21 (SpecTiled): every tile layer of a converted map has the z-index of
\* its override when one is given, else the layer's z-index property when
\* present, else the layer's position (from 0) in the document.
C21_LayerZIndex ==
  (qry.asked /\ qry.result.ok) =>
     \A j \in 1..Len(world.tm.layers) :
       world.tm.layers[j].zIndex = ZIndexGiven(DocIndexOf(world.tm.layers[j]))

\* C21 witness: a converted map with a layer placed by an override, one by
\* its property and one by its position 2 in the document
C21_Witness ==
  /\ qry.asked /\ qry.result.ok
  /\ \E a, b, c \in 1..Len(world.tm.layers) :
       /\ qry.opts.layerOverrides[world.tm.layers[a].name].hasZIndex
       /\ world.tm.layers[a].zIndex
            = qry.opts.layerOverrides[world.tm.layers[a].name].zIndex
       /\ ~qry.opts.layerOverrides[world.tm.layers[b].name].hasZIndex
       /\ DocLayerOf(world.tm.layers[b]).hasZIndexProperty
       /\ world.tm.layers[b].zIndex = 5
       /\ ~qry.opts.layerOverrides[world.tm.layers[c].name].hasZIndex
       /\ ~DocLayerOf(world.tm.layers[c]).hasZIndexProperty
       /\ DocIndexOf(world.tm.layers[c]) = 3
       /\ world.tm.layers[c].zIndex = 2

\* the visible tile layers of the document that are given kind
ResolvedAs(kind) ==
  {i \in 1..Len(qry.doc.layers) :
     /\ qry.doc.layers[i].type = "tilelayer"
     /\ qry.doc.layers[i].visible
     /\ KindGiven(qry.doc.layers[i]) = kind}

\* the converted map has no tile layer made from layer i of the document
NotATileLayer(i) ==
  \A j \in 1..Len(world.tm.layers) :
    world.tm.layers[j].name # qry.doc.layers[i].name

\* getLayer with the name of layer i of the document fails
GetLayerFails(i) ==
  TileMap_getLayer(world.tm, qry.doc.layers[i].name).threw

\* a layer resolved as collision blocks its non-empty cells
CollisionLayersMark ==
  \A i \in ResolvedAs("collision") :
    \A c \in Cells(world.tm.width, world.tm.height) :
      GidAt(i, c) # 0 => TileMap_isBlocked(world.tm, c[1], c[2])

\* every blocked cell is non-empty in a layer that is not ignored
IgnoredLayersBlockNothing ==
  \A c \in Cells(world.tm.width, world.tm.height) :
    TileMap_isBlocked(world.tm, c[1], c[2]) =>
      \E i \in ConvertedLayers : GidAt(i, c) # 0

\* C22 (SpecTiled): in a converted map a layer resolved as collision blocks
\* its non-empty cells and is no tile layer, a layer resolved as ignore
\* gives no tile layer and no blocked cell, and getLayer with the name of
\* either fails.
C22_OnlyTileLayersQueryable ==
  (qry.asked /\ qry.result.ok) =>
     /\ CollisionLayersMark
     /\ IgnoredLayersBlockNothing
     /\ \A i \in ResolvedAs("collision") \cup ResolvedAs("ignore") :
          NotATileLayer(i) /\ GetLayerFails(i)

\* a ratio is a whole number
IsWhole(r) == r.num % r.den = 0

\* C23 (SpecVariants): for a kind whose configuration has count >= 1 and
\* any of the four strategies, selectVariant returns a whole number v with
\* 0 <= v < count.
C23_VariantInRange ==
  qry.asked =>
    LET config == TileVariants_getConfig(qry.configs, qry.tileId)
    IN config.count >= 1 =>
         /\ IsWhole(qry.result)
         /\ 0 <= qry.result.num
         /\ qry.result.num \div qry.result.den < config.count

\* the last operation was one of the renderer's
RendererOps == {"updateCulling", "markTileDirty", "rebuildLayer", "rebuildAll"}

\* the chunk of the renderer r at k = <<layer name, chunk key>>
ChunkAt(r, k) == r.chunks[k[1]][k[2]]

\* C24 (SpecRenderer): every chunk rendered by an operation of the
\* renderer has its coordinate in the visible set (for updateCulling, the
\* new one); a chunk outside it is not rendered.
C24_RenderedOnlyInView ==
  \A k \in qry.r.rendered : k[2] \in qry.r.visibleChunks

\* C24 witness: a rebuild rendered the chunks in view and left a chunk out
\* of view dirty and never drawn
C24_Witness ==
  /\ hist.op \in {"rebuildLayer", "rebuildAll"}
  /\ qry.r.rendered # {}
  /\ \E k \in AllChunks(qry.r) :
       /\ k[2] \notin qry.r.visibleChunks
       /\ k \notin qry.r.rendered
       /\ ChunkAt(qry.r, k).isDirty

\* the chunk coordinates in view of a camera rectangle, a chunk being
\* CHUNK_SIZE tiles of TileSize pixels wide
InView(bounds) ==
  {k \in ((bounds.left \div (CHUNK_SIZE * TileSize) - 1)
            ..(CeilDiv(bounds.right, CHUNK_SIZE * TileSize) + 1))
          \X ((bounds.top \div (CHUNK_SIZE * TileSize) - 1)
                ..(CeilDiv(bounds.bottom, CHUNK_SIZE * TileSize) + 1)) : TRUE}

\* a step of updateCulling that meets C25
CullingStep ==
  /\ qry'.r.visibleChunks = InView(qry'.args.bounds)
  /\ AllChunks(qry'.r) = AllChunks(qry.r)
  /\ \A k \in AllChunks(qry.r) :
       /\ (k[2] \in InView(qry'.args.bounds) /\ k[2] \notin qry.r.visibleChunks)
            => /\ ChunkAt(qry'.r, k).tilemap.visible
               /\ ~ChunkAt(qry'.r, k).isDirty
               /\ ChunkAt(qry.r, k).isDirty <=> k \in qry'.r.rendered
       /\ (k[2] \notin InView(qry'.args.bounds) /\ k[2] \in qry.r.visibleChunks)
            => ~ChunkAt(qry'.r, k).tilemap.visible

\* C25 (SpecRenderer): after updateCulling(rect) the visible set is the
\* chunk coordinates from floor(left/chunkPx)-1 to ceil(right/chunkPx)+1
\* and from floor(top/chunkPx)-1 to ceil(bottom/chunkPx)+1; every chunk
\* that came into the range was rendered if dirty and is shown, every chunk
\* that left it is hidden, and the chunks are the same as before.
C25_Culling ==
  [][hist'.op = "updateCulling" => CullingStep]_vars

\* C25 witness: an updateCulling rendered a chunk that came into view while
\* another chunk, drawn before, is hidden
C25_Witness ==
  /\ hist.op = "updateCulling"
  /\ qry.r.rendered # {}
  /\ \A k \in qry.r.rendered : ChunkAt(qry.r, k).tilemap.visible
  /\ \E k \in AllChunks(qry.r) :
       /\ ~ChunkAt(qry.r, k).tilemap.visible
       /\ ~ChunkAt(qry.r, k).isDirty
       /\ k[2] \notin qry.r.visibleChunks

\* the chunk that owns the tile markTileDirty was called for
DirtyChunk == <<qry'.args.name, <<qry'.args.tx \div 16, qry'.args.ty \div 16>>>>

\* a step of markTileDirty that meets C26
MarkStep ==
  \A k \in AllChunks(qry.r) :
    IF k # DirtyChunk THEN ChunkAt(qry'.r, k) = ChunkAt(qry.r, k)
    ELSE IF k[2] \in qry.r.visibleChunks
      THEN k \in qry'.r.rendered /\ ~ChunkAt(qry'.r, k).isDirty
      ELSE /\ k \notin qry'.r.rendered
           /\ ChunkAt(qry'.r, k) = [ChunkAt(qry.r, k) EXCEPT !.isDirty = TRUE]

TilesOfChunk(name, key) ==
  {c \in DOMAIN LayerNamed(world.tm, name).tiles :
     /\ c[1] \div 16 = key[1]
     /\ c[2] \div 16 = key[2]
     /\ LayerNamed(world.tm, name).tiles[c].id # "empty"}

\* C29 (SpecRenderer): rendering a chunk that holds a tile whose kind has
\* no texture does not fail: that tile is skipped with a warning, every
\* other non-empty tile of the chunk is drawn, and the chunk is clean.
C29_MissingTextureSkipped ==
  hist.op \in RendererOps =>
    \A k \in qry.r.rendered :
      /\ ~ChunkAt(qry.r, k).isDirty
      /\ \A c \in TilesOfChunk(k[1], k[2]) :
           LET id == LayerNamed(world.tm, k[1]).tiles[c].id
               drawn == [texture |-> id, x |-> c[1] * TileSize,
                         y |-> c[2] * TileSize]
           IN IF id \in qry.r.textures
                THEN drawn \in ChunkAt(qry.r, k).tilemap.tiles
                ELSE /\ <<k[1], c>> \in qry.r.warned
                     /\ \A t \in ChunkAt(qry.r, k).tilemap.tiles :
                          <<t.x, t.y>> # <<drawn.x, drawn.y>>

\* C29 witness: chunk (0, 0) of ground was rendered with a tree, for which
\* there is no texture, at (0, 0) and grass at (1, 0)
C29_Witness ==
  /\ hist.op \in RendererOps
  /\ <<"ground", <<0, 0>>>> \in qry.r.rendered
  /\ LayerNamed(world.tm, "ground").tiles[<<0, 0>>].id = "tree"
  /\ <<"ground", <<0, 0>>>> \in qry.r.warned
  /\ qry.r.chunks["ground"][<<0, 0>>].tilemap.tiles
       = {[texture |-> "grass", x |-> TileSize, y |-> 0]}

\* C30 (SpecRenderer): after construction and after every operation, every
\* chunk whose coordinate is in the visible set is clean.
C30_VisibleChunksClean ==
  \A k \in AllChunks(qry.r) :
    k[2] \in qry.r.visibleChunks => ~ChunkAt(qry.r, k).isDirty

\* C30 witness: after markTileDirty for a tile out of view, its chunk is
\* dirty and out of view while the chunks in view are clean
C30_Witness ==
  /\ hist.op = "markTileDirty"
  /\ \E k \in AllChunks(qry.r) :
       k[2] \notin qry.r.visibleChunks /\ ChunkAt(qry.r, k).isDirty
       /\ ~ChunkAt(qry.r, k).tilemap.visible
  /\ \E k \in AllChunks(qry.r) :
       k[2] \in qry.r.visibleChunks /\ ~ChunkAt(qry.r, k).isDirty

\* the three hitbox tests of the last tick, made anew from what the tick
\* proposed
TickCollides(worldX, worldY) == Player_checkCollision(world, physics, PlayerOptions, worldX, worldY).collides

DiagonalBlocked == TickCollides(qry.tick.newX, qry.tick.newY)

HorizontalFree == ~TickCollides(qry.tick.newX, qry.tick.y * PosScale)

VerticalFree == ~TickCollides(qry.tick.x * PosScale, qry.tick.newY)

SlidesAlongX ==
  /\ qry.x = Math_round(qry.tick.newX) /\ qry.vx = qry.tick.vx
  /\ qry.y = qry.tick.y /\ qry.vy = 0

SlidesAlongY ==
  /\ qry.y = Math_round(qry.tick.newY) /\ qry.vy = qry.tick.vy
  /\ qry.x = qry.tick.x /\ qry.vx = 0

\* C27 (SpecPlayer): after a Player.update whose proposed position collides
\* while the horizontal-only or the vertical-only move is free, the player
\* has moved along one axis only: along x if the horizontal move is free,
\* else along y.  On the other axis the position is the one before the
\* tick and the velocity is 0; on the sliding axis the position is the
\* rounded proposal and the velocity is the one the tick computed.
C27_WallSlide ==
  qry.tick.ran /\ DiagonalBlocked =>
    /\ HorizontalFree => SlidesAlongX
    /\ ~HorizontalFree /\ VerticalFree => SlidesAlongY

\* an airborne player moving diagonally into the water slides along y,
\* and one slides along x
C27_Witness ==
  /\ qry.tick.ran /\ DiagonalBlocked /\ ~HorizontalFree /\ VerticalFree
  /\ physics.height > 0
  /\ qry.tick.vx # 0 /\ qry.tick.vy # 0
  /\ SlidesAlongY /\ qry.y # qry.tick.y

\* C28 (SpecPlayer), as stated: one Player.update makes at most 9 calls of
\* the blocking predicate.
C28_AtMostNineCalls == qry.tick.ran => qry.tick.calls <= 9

\* C28 (SpecPlayer), amended: one Player.update makes at most 24 calls of
\* the blocking predicate, 8 for each of up to three hitbox tests (the
\* proposed position, the horizontal-only and the vertical-only move); a
\* tick whose proposed position is free makes exactly 8.
C28_AtMostThreeTests ==
  qry.tick.ran =>
    /\ qry.tick.calls <= 3 * 8
    /\ ~DiagonalBlocked => qry.tick.calls = 8

\* a tick that made all 24 calls
C28_Witness == qry.tick.ran /\ qry.tick.calls = 3 * 8

\* no chunk has been rendered: every chunk is dirty and empty
NothingRendered ==
  /\ qry.r.rendered = {}
  /\ \A k \in AllChunks(qry.r) :
       ChunkAt(qry.r, k).isDirty /\ ChunkAt(qry.r, k).tilemap.tiles = {}

\* the chunks that are dirty before a step and come into view with it
DirtyAndShown ==
  {k \in AllChunks(qry.r) :
     /\ ChunkAt(qry.r, k).isDirty
     /\ k[2] \in qry'.r.visibleChunks
     /\ k[2] \notin qry.r.visibleChunks}

\* a step that meets C31
LazyStep ==
  /\ hist'.op = "updateCulling" =>
       /\ qry'.r.rendered = DirtyAndShown
       /\ \A k \in DirtyAndShown : ~ChunkAt(qry'.r, k).isDirty
       /\ \A k \in AllChunks(qry.r) \ DirtyAndShown :
            ChunkAt(qry'.r, k).tilemap.tiles = ChunkAt(qry.r, k).tilemap.tiles
  /\ hist'.op \in RendererOps =>
       \A k \in AllChunks(qry.r) :
         /\ ChunkAt(qry.r, k).isDirty
         /\ k[2] \notin qry.r.visibleChunks
         /\ k[2] \notin qry'.r.visibleChunks
         => /\ ChunkAt(qry'.r, k).isDirty
            /\ k \notin qry'.r.rendered
            /\ ChunkAt(qry'.r, k).tilemap.tiles = ChunkAt(qry.r, k).tilemap.tiles

\* C31 (SpecRenderer): rendering is lazy.  After construction every chunk
\* is dirty and nothing is rendered.  updateCulling renders exactly the
\* chunks that are dirty and come into view with it, each once, and leaves
\* them clean; it draws no other chunk anew, so a clean chunk is never
\* rendered again.  A chunk that is dirty and out of view stays dirty and
\* undrawn through every operation that does not bring it into view.
C31_LazyRendering == NothingRendered /\ [][LazyStep]_vars

\* C31 witness: the chunk of objects, dirtied out of view after its first
\* rendering, was rendered by the updateCulling that brought it back into
\* view, while the chunk of ground at the same place, clean, was not
C31_Witness ==
  /\ hist.op = "updateCulling"
  /\ qry.r.rendered = {<<"objects", <<0, 0>>>>}
  /\ <<0, 0>> \in qry.r.visibleChunks
  /\ ~qry.r.chunks["ground"][<<0, 0>>].isDirty
  /\ qry.r.chunks["ground"][<<0, 0>>].tilemap.tiles # {}

\* the hitbox test at a position in whole pixels
CollidesAt(x, y) == TickCollides(x * PosScale, y * PosScale)

\* C32 (SpecPlayer): if the hitbox test at the player's position before a
\* Player.update does not collide, the hitbox test at the rounded position
\* after it does not collide either (the blocking predicate being the
\* same before and after).
C32_NeverEndsBlocked ==
  qry.tick.ran /\ ~CollidesAt(qry.tick.x, qry.tick.y) =>
    ~CollidesAt(qry.x, qry.y)

\* C32 witness: a tick from a free position ended between two pixels and
\* was rounded towards a blocked tile one pixel away
C32_Witness ==
  /\ qry.tick.ran /\ ~CollidesAt(qry.tick.x, qry.tick.y)
  /\ qry.x # qry.tick.x
  /\ qry.x * PosScale > qry.tick.finalX
  /\ CollidesAt(qry.x + 1, qry.y)
  /\ ~CollidesAt(qry.x, qry.y)

\* the positions at the eighths of the way from the position before the
\* last tick to the position the tick resolved (before rounding)
PathSamples ==
  {<<qry.tick.x * PosScale
       + ((qry.tick.finalX - qry.tick.x * PosScale) * i) \div 8,
     qry.tick.y * PosScale
       + ((qry.tick.finalY - qry.tick.y * PosScale) * i) \div 8>> :
     i \in 1..7}

\* a corner of the hitbox at a position is in a blocked tile
HitboxBlocked(worldX, worldY) ==
  \E i \in 1..4 :
    Player_isBlocked(world, physics,
                     checkPoints(PlayerOptions, worldX, worldY)[i])

\* the hitbox meets a blocked tile somewhere on that way
PathBlocked == \E s \in PathSamples : HitboxBlocked(s[1], s[2])

\* C33 (SpecPlayer), as stated: collision resolution is swept.  A player
\* that was free before a Player.update has not, with the move the tick
\* made, passed over a blocked tile lying on the straight way between its
\* hitbox before and its hitbox after.
C33_Swept ==
  qry.tick.ran /\ ~CollidesAt(qry.tick.x, qry.tick.y) => ~PathBlocked

\* the position Player.update resolves when only end positions are tested:
\* the first free one of the proposed, the horizontal-only and the
\* vertical-only position, else the position before the tick
EndpointResolved ==
  IF ~DiagonalBlocked THEN <<qry.tick.newX, qry.tick.newY>>
  ELSE IF HorizontalFree THEN <<qry.tick.newX, qry.tick.y * PosScale>>
  ELSE IF VerticalFree THEN <<qry.tick.x * PosScale, qry.tick.newY>>
  ELSE <<qry.tick.x * PosScale, qry.tick.y * PosScale>>

\* C33 (SpecPlayer), amended: collision resolution tests end positions
\* only.  For a player that was free before a Player.update, the position
\* the tick resolves is the first free one of the proposed, the
\* horizontal-only and the vertical-only position, else the old position,
\* and the hitbox test at it does not collide; blocked tiles on the way
\* there are not looked at.
C33_EndpointsOnly ==
  qry.tick.ran /\ ~CollidesAt(qry.tick.x, qry.tick.y) =>
    /\ <<qry.tick.finalX, qry.tick.finalY>> = EndpointResolved
    /\ ~TickCollides(qry.tick.finalX, qry.tick.finalY)

\* C33 witness: a tick took the proposed position, free, although the
\* hitbox crossed a blocked tile on the way to it
C33_Witness ==
  /\ qry.tick.ran /\ ~CollidesAt(qry.tick.x, qry.tick.y)
  /\ ~DiagonalBlocked
  /\ qry.tick.finalX = qry.tick.newX /\ qry.tick.finalY = qry.tick.newY
  /\ PathBlocked
  /\ ~HitboxBlocked(qry.tick.finalX, qry.tick.finalY)

\* the proposed, the horizontal-only and the vertical-only position of the
\* last Player.update all collide
CompletelyBlocked == DiagonalBlocked /\ ~HorizontalFree /\ ~VerticalFree

\* C34 (SpecPlayer): when the proposed, the horizontal-only and the
\* vertical-only position of a Player.update all collide, the position is
\* the one before the tick and both velocity components are 0; and after
\* any tick the velocity is 0 on every axis whose resolved coordinate is
\* not the proposed one.
C34_BlockedAxesZeroed ==
  qry.tick.ran =>
    /\ CompletelyBlocked =>
          /\ qry.x = qry.tick.x /\ qry.y = qry.tick.y
          /\ qry.vx = 0 /\ qry.vy = 0
    /\ qry.tick.finalX # qry.tick.newX => qry.vx = 0
    /\ qry.tick.finalY # qry.tick.newY => qry.vy = 0

\* C34 witness: a tick that proposed motion on both axes from a free
\* position was completely blocked; the player stayed and lost both velocity components
C34_Witness ==
  /\ qry.tick.ran /\ CompletelyBlocked
  /\ ~CollidesAt(qry.tick.x, qry.tick.y)
  /\ qry.tick.vx # 0 /\ qry.tick.vy # 0
  /\ qry.x = qry.tick.x /\ qry.y = qry.tick.y
  /\ qry.vx = 0 /\ qry.vy = 0

\* C35 (SpecState): a jump cannot be initiated twice within one airborne
\* period: once startJump() has run, canJump() is false until the phase has
\* returned to Grounded.  Stated for the first of those moments, the one
\* right after startJump(), where the phase is Rising.
C35_NoSecondJump == hist.op = "startJump" => ~canJump(js)

\* C36 (SpecTouchdown): in the tick loop (JumpPhysics.update with the
\* current phase, then JumpState.update with its output), whenever the phase
\* after a tick is Grounded or Landing, the height and the velocity of
\* JumpPhysics are both 0.
C36_PinnedOnGround ==
  hist.op = "update" /\ js.phase \in {Grounded, Landing} =>
    physics.height = 0 /\ physics.velocity = 0

\* the call of findNearestValidPosition has run its search loop
Searched ==
  la.op = "findNearestValidPosition" /\ la.landingBlocked /\ la.pushOutEnabled

\* the radii at which some probed position is valid and within snapDistance
SnapRadii ==
  {r \in Radii :
     \E i \in 1..8 :
       LET pos == Positions(la.x, la.y, r)[i]
       IN /\ isValidPosition(la, pos[1], pos[2])
          /\ Dist2(pos[1], pos[2], la.x, la.y) <= snapDistance * snapDistance}

\* the last radius the search is to probe
LastRadius ==
  IF SnapRadii = {} THEN checkRadius
  ELSE CHOOSE r \in SnapRadii : \A q \in SnapRadii : r <= q

\* C37 (SpecLanding): the landing search probes all 8 directions of every
\* radius 2, 4, ... up to and including the first radius at which a valid
\* position within snapDistance is found, and nothing beyond it; when there
\* is no such radius it probes all 8 directions of every radius up to
\* checkRadius.
C37_ProbesWholeRadius ==
  Searched =>
    LET probes == SearchProbes(la, searchStep, null)
    IN /\ Len(probes) = 8 * (LastRadius \div searchStep)
       /\ \A k \in 1..Len(probes) :
            probes[k] =
              Positions(la.x, la.y,
                        searchStep * ((k - 1) \div 8 + 1))[((k - 1) % 8) + 1]

\* C37 witness: the first probe of radius 4 is valid and within
\* snapDistance; the search returned it after probing the 8 positions of
\* radius 2 and the 8 of radius 4, and left a valid position at a larger
\* radius unprobed
C37_Witness ==
  /\ Searched
  /\ LastRadius = 2 * searchStep
  /\ <<2 * searchStep, 0>> \in la.valid
  /\ la.result = <<la.x + 2 * searchStep, la.y>>
  /\ Len(SearchProbes(la, searchStep, null)) = 16
  /\ \E o \in la.valid : o[1] > 2 * searchStep \/ o[2] > 2 * searchStep

\* C38 (SpecProgress): with a movement direction held and no obstacle
\* nearby, the position of the player eventually changes, whatever the
\* tick length.
C38_EventuallyMoves == <>(qry.x # OpenStart[1] \/ qry.y # OpenStart[2])

\* the tile id a cell of a document gives: the id of the table for a
\* number, the string itself, "empty" for null
GivenId(cell) ==
  IF cell.t = "number" THEN TILE_ID_MAP[cell.n + 1]
  ELSE IF cell.t = "string" THEN cell.s
  ELSE "empty"

\* C39 (SpecLoader): parseMapData preserves the content of every layer:
\* the tile at every cell has the id the document gives for that cell,
\* whether the layer is given as numbers or as tile-id strings and
\* whatever its first cell holds.
C39_ContentPreserved ==
  scn.parsed =>
    \A i \in 1..Len(scn.data.layers) :
      LET layerData == scn.data.layers[i]
          layer == TileMap_getLayer(world.tm, layerData.name).layer
      IN \A c \in Cells(layerData.width, layerData.height) :
           TileLayer_getTile(layer, c[1], c[2]).id
             = GivenId(CellAt(layerData.data, c[1], c[2]))

\* the layers of the converted document with visible = false
HiddenLayers == {i \in 1..Len(qry.doc.layers) : ~qry.doc.layers[i].visible}

\* the converted document with every hidden layer emptied: no tile in any
\* cell, the declared shape that of the map, no kind property
HiddenBlanked ==
  [qry.doc EXCEPT !.layers =
     [i \in 1..Len(qry.doc.layers) |->
        IF i \in HiddenLayers
          THEN [qry.doc.layers[i] EXCEPT
                  !.data = [k \in DOMAIN qry.doc.layers[i].data |-> Gid(0)],
                  !.width = qry.doc.width, !.height = qry.doc.height,
                  !.kindProperty = ""]
          ELSE qry.doc.layers[i]]]

\* C40 (SpecTiled): a layer with visible = false contributes nothing to the
\* conversion: the outcome (the map with its collision grid, or the error)
\* is the one of the document with that layer emptied, and the map has no
\* tile layer of its name.
C40_HiddenLayerContributesNothing ==
  qry.asked =>
    LET r == fromTiled(HiddenBlanked, qry.opts)
    IN /\ qry.result.ok = r.ok
       /\ qry.result.error = r.error
       /\ r.ok => /\ world.tm = r.value
                  /\ \A i \in HiddenLayers :
                       ~TileMap_getLayer(world.tm, qry.doc.layers[i].name).found

\* C40 witness: a hidden layer of kind collision holds a colliding tile in
\* one cell and a flipped tile in another; the conversion succeeded and the
\* cell of the colliding tile is not blocked
C40_Witness ==
  /\ qry.asked /\ qry.result.ok
  /\ \E i \in HiddenLayers :
       LET layer == qry.doc.layers[i]
       IN /\ layer.kindProperty = "collision"
          /\ layer.data[1] = Gid(2)
          /\ HasFlippedBits(layer.data[MapWidth * MapHeight])
          /\ world.tm.collisionGrid[0] = 0

====
